---- MODULE Spec2Model ----
(***************************************************************************)
(* Aequi swap aggregator: the AequiExecutor contract (execute and its      *)
(* five phases) and the SwapBuilder that produces the plans it runs.       *)
(*                                                                         *)
(* Amounts are unsigned integers of UintBits bits carried in 32-byte       *)
(* big-endian words, as on the EVM; MaxUint256 is the largest of them.     *)
(* Addresses are names; AddrNum gives the number an address is encoded as. *)
(***************************************************************************)
EXTENDS Integers, Naturals, Sequences, FiniteSets, TLC

\* ------------------------------------------------------------------------
\* Bounds of the model
\* ------------------------------------------------------------------------
UintBits == 16
MaxReenter == 1
MaxHops == 2

\* ------------------------------------------------------------------------
\* Addresses
\* ------------------------------------------------------------------------
ZeroAddress == "0x0"
TokA == "tokA"
TokB == "tokB"
WNative == "wnative"
Executor == "executor"
Alice == "alice"
Bob == "bob"
RouterV2 == "routerV2"
RouterV3 == "routerV3"
Router02 == "router02"

Tokens == {TokA, TokB, WNative}
Users == {Alice, Bob}
Routers == {RouterV2, RouterV3, Router02}
Accounts == {Executor} \cup Users \cup Routers \cup Tokens

AddrList == <<TokA, TokB, WNative, Executor, Alice, Bob, RouterV2, RouterV3, Router02>>

AddrNum(a) ==
  IF a = ZeroAddress THEN 0
  ELSE CHOOSE i \in 1..Len(AddrList) : AddrList[i] = a

MaxUint256 == 2^UintBits - 1

Min(a, b) == IF a <= b THEN a ELSE b

\* ------------------------------------------------------------------------
\* ABI encoding: byte strings are sequences of bytes 0..255
\* ------------------------------------------------------------------------
WordSize == 32

\* byte k (1 = most significant) of the 32-byte big-endian word holding v
ByteOfWord(v, k) ==
  IF WordSize - k > 3 THEN 0 ELSE (v \div (256 ^ (WordSize - k))) % 256

Word(v) == [k \in 1..WordSize |-> ByteOfWord(v, k)]

AddrWord(a) == Word(AddrNum(a))

RECURSIVE Concat(_)
Concat(parts) ==
  IF parts = <<>> THEN <<>> ELSE Head(parts) \o Concat(Tail(parts))

\* the bytes data[off .. off+32), off counted from 0
WordAt(data, off) == SubSeq(data, off + 1, off + WordSize)

\* the unsigned number a big-endian word stands for
RECURSIVE WordValue(_)
WordValue(w) ==
  IF Len(w) = 0 THEN 0
  ELSE WordValue(SubSeq(w, 1, Len(w) - 1)) * 256 + w[Len(w)]

SelSwapExactTokensForTokens == <<56, 237, 23, 57>>
SelExactInputSingle == <<65, 75, 243, 137>>
SelExactInputSingle02 == <<4, 228, 90, 175>>
SelDeposit == <<208, 227, 13, 176>>
SelWithdraw == <<46, 26, 125, 77>>
SelTransferFrom == <<35, 184, 114, 221>>

\* ------------------------------------------------------------------------
\* Executor call payloads (WETH_ABI: deposit(), withdraw(uint256))
\* ------------------------------------------------------------------------
EncodeDeposit == SelDeposit

EncodeWithdraw(amount) == SelWithdraw \o Word(amount)

\* ERC-20 transferFrom(from, to, amount)
EncodeTransferFrom(from, to, amount) ==
  SelTransferFrom \o AddrWord(from) \o AddrWord(to) \o Word(amount)

\* ------------------------------------------------------------------------
\* The chain state the executor acts on
\* ------------------------------------------------------------------------
WorldTokens == {TokA, TokB}
Holders == {Executor, Alice, Bob, RouterV2}
Owners == {Executor, Alice, Bob}
Spenders == {Executor, RouterV2}

NotEntered == "NOT_ENTERED"
Entered == "ENTERED"

VARIABLES
  bal,        \* bal[token][holder]: ERC-20 balances
  eth,        \* eth[holder]: native balances
  allow,      \* allow[token][owner][spender]: ERC-20 allowances
  paused,     \* Pausable._paused
  status,     \* ReentrancyGuard._status
  run,        \* the frame of the execute call in progress (kept after it ends)
  pc,         \* position of that frame
  idx,        \* index inside the current phase's list, from 1
  suspended,  \* frames of execute calls waiting on a nested one, outermost first
  trace,      \* phase steps the frame has taken, in order
  dispatched, \* external calls the frame has dispatched, in order
  afterCalls, \* balances when the frame last finished a pull, approval or call
  attempt,    \* the last call of execute: who, the guards' state, accepted or not
  outcome,    \* how the last top-level transaction ended
  reentries,  \* nested calls of execute tried by the callee of the current call
  req,        \* the chain, quote and parameters last handed to SwapBuilder.build
  tx,         \* what that build returned: the SwapTransaction, or the error thrown
  again,      \* what a second build of the same request, at a later time, returned
  settled,    \* how the built plan settled when a caller sent it to the executor
  ask,        \* the arguments of the getBestQuoteForTokens call in progress
  ppc,        \* position of that call
  pending,    \* intermediate tokens fetchMultiHopQuotes has still to try
  legA,       \* the best first-leg quote for the intermediate token being tried
  candidates, \* quotes collected so far, direct ones first
  quoted,     \* what getBestQuoteForTokens returned, or that it threw
  failedReads,\* kinds of chain reads that have failed during the call
  calc,       \* the last application of a pure function: name, arguments, result
  cache,      \* the pair-address caches: cache[key] is an entry or NoEntry
  clock,      \* Date.now(), in units of the model
  lookup      \* the last cache lookup and what it returned, until the next set or tick

worldVars == <<bal, eth, allow>>
buildVars == <<req, tx, again, settled>>
priceVars == <<ask, ppc, pending, legA, candidates, quoted, failedReads>>
cacheVars == <<cache, clock, lookup>>
calcVars == <<calc, cacheVars>>
chainVars == <<bal, eth, allow, paused, status, run, pc, idx, suspended, trace,
               dispatched, afterCalls, attempt, outcome, reentries>>
execVars == <<chainVars, buildVars, priceVars, calcVars>>

NoRun ==
  [caller |-> ZeroAddress, value |-> 0, pulls |-> <<>>, approvals |-> <<>>,
   calls |-> <<>>, tokensToFlush |-> <<>>, ethBalanceBefore |-> 0,
   tokenBalancesBefore |-> <<>>, pre |-> [bal |-> <<>>, eth |-> <<>>, allow |-> <<>>],
   failed |-> FALSE]

\* ------------------------------------------------------------------------
\* ERC-20 token behaviour (OpenZeppelin ERC20 as used through SafeERC20)
\* ------------------------------------------------------------------------
Move(b, tok, from, to, amt) ==
  IF from = to THEN b
  ELSE [b EXCEPT ![tok][from] = @ - amt, ![tok][to] = @ + amt]

CanTransferFrom(b, a, tok, from, spender, amt) ==
  /\ tok \in WorldTokens /\ from \in Owners /\ spender \in Spenders
  /\ b[tok][from] >= amt
  /\ a[tok][from][spender] >= amt

SpendAllowance(a, tok, from, spender, amt) ==
  IF a[tok][from][spender] = MaxUint256 THEN a
  ELSE [a EXCEPT ![tok][from][spender] = @ - amt]

CanApprove(tok, spender) == tok \in WorldTokens /\ spender \in Spenders

\* ------------------------------------------------------------------------
\* AequiExecutor: guards, snapshot, injection
\* ------------------------------------------------------------------------
NoNonReentrant(st) == TRUE

NonReentrantOk(st) == st # Entered

WhenNotPausedOk(p) == ~p

EntryGuardsPass(st, p) == NonReentrantOk(st) /\ WhenNotPausedOk(p)

SnapshotBalances(b, tokens) == [i \in 1..Len(tokens) |-> b[tokens[i]][Executor]]

\* mstore(add(add(data, 32), offset), injectedAmount)
InjectWrongOffset(data, offset, amount) ==
  [i \in 1..Len(data) |->
     IF i > offset + 1 /\ i <= offset + 1 + WordSize
     THEN ByteOfWord(amount, i - offset - 1) ELSE data[i]]

Inject(data, offset, amount) ==
  [i \in 1..Len(data) |->
     IF i > offset /\ i <= offset + WordSize
     THEN ByteOfWord(amount, i - offset) ELSE data[i]]

NoOffsetCheck(offset, length) == TRUE

OffsetInBounds(offset, length) == ~(offset + WordSize > length)

\* the order of the calls in execute's body
CallsFirstOrder == <<"pull", "call", "approve", "revoke", "flush", "flushNative">>

PhaseOrder == <<"pull", "approve", "call", "revoke", "flush", "flushNative">>

PhaseLen(r, phase) ==
  CASE phase = "pull" -> Len(r.pulls)
    [] phase = "approve" -> Len(r.approvals)
    [] phase = "call" -> Len(r.calls)
    [] phase = "revoke" -> Len(r.approvals)
    [] phase = "flush" -> Len(r.tokensToFlush)
    [] phase = "flushNative" -> 1

PhaseRank(phase) == CHOOSE k \in 1..Len(PhaseOrder) : PhaseOrder[k] = phase

\* the position after step i of phase k of PhaseOrder (k = 0, i = 0: on entry)
RECURSIVE NextPos(_, _, _)
NextPos(r, k, i) ==
  IF k >= 1 /\ i < PhaseLen(r, PhaseOrder[k]) THEN [pc |-> PhaseOrder[k], idx |-> i + 1]
  ELSE IF k >= Len(PhaseOrder) THEN [pc |-> "idle", idx |-> 0]
  ELSE NextPos(r, k + 1, 0)

\* ------------------------------------------------------------------------
\* Inputs of execute
\* ------------------------------------------------------------------------
Pull(tok, amt) == [token |-> tok, amount |-> amt]

Approval(tok, sp, amt, rev) ==
  [token |-> tok, spender |-> sp, amount |-> amt, revokeAfter |-> rev]

Call(tgt, val, data, injTok, injOff) ==
  [target |-> tgt, value |-> val, data |-> data, injectToken |-> injTok,
   injectOffset |-> injOff]

PullChoices ==
  {<<>>, <<Pull(TokA, 1)>>, <<Pull(TokA, 2)>>, <<Pull(TokA, 3)>>,
   <<Pull(TokA, 1), Pull(TokA, 1)>>}

ApprovalChoices ==
  {<<>>,
   <<Approval(TokA, RouterV2, 2, TRUE)>>,
   <<Approval(TokA, RouterV2, MaxUint256, FALSE)>>,
   <<Approval(TokA, RouterV2, 1, TRUE), Approval(TokB, RouterV2, 1, FALSE)>>,
   <<Approval(TokA, ZeroAddress, 1, TRUE)>>}

TwoWords == SelWithdraw \o Word(0) \o Word(7)

CallFixed == Call(RouterV2, 0, EncodeWithdraw(1), ZeroAddress, 0)
CallInjectA == Call(RouterV2, 0, EncodeWithdraw(0), TokA, 4)
CallInjectB == Call(RouterV2, 0, EncodeWithdraw(0), TokB, 4)
CallPastEnd == Call(RouterV2, 0, EncodeWithdraw(0), TokA, 5)
CallUnaligned == Call(RouterV2, 0, TwoWords, TokA, 20)
CallWithValue == Call(RouterV2, 1, EncodeDeposit, ZeroAddress, 0)
\* a call whose target is a token contract: transferFrom(Bob, Alice, 1) on TokA
CallTransferFrom == Call(TokA, 0, EncodeTransferFrom(Bob, Alice, 1), ZeroAddress, 0)

CallChoices ==
  {<<>>, <<CallFixed>>, <<CallInjectA>>, <<CallInjectB>>, <<CallPastEnd>>,
   <<CallUnaligned>>, <<CallWithValue>>,
   <<CallFixed, CallInjectB>>, <<CallFixed, CallInjectA>>,
   <<CallWithValue, CallPastEnd>>, <<CallTransferFrom>>}

FlushChoices == {<<>>, <<TokA>>, <<TokB>>, <<TokA, TokB>>, <<TokB, TokB>>}

\* ------------------------------------------------------------------------
\* AequiExecutor.execute, one step per loop iteration
\* ------------------------------------------------------------------------
Frame ==
  [run |-> run, idx |-> idx, trace |-> trace, dispatched |-> dispatched,
   afterCalls |-> afterCalls, reentries |-> reentries]

\* the frame returns or moves on after step idx of `phase`, leaving balances
\* b2, e2 and allowances a2, with frame record r2
Proceed(phase, r2, b2, e2, a2) ==
  LET pos == NextPos(r2, PhaseRank(phase), idx)
      tr == Append(trace, phase)
      ac == IF phase \in {"pull", "approve", "call"} THEN b2 ELSE afterCalls
  IN /\ bal' = b2 /\ eth' = e2 /\ allow' = a2
     /\ IF pos.pc # "idle"
        THEN /\ pc' = pos.pc /\ idx' = pos.idx /\ run' = r2
             /\ trace' = tr /\ afterCalls' = ac
             /\ UNCHANGED <<status, suspended, outcome, dispatched, reentries>>
        ELSE IF suspended = <<>>
        THEN /\ pc' = "idle" /\ idx' = 0 /\ run' = r2
             /\ trace' = tr /\ afterCalls' = ac
             /\ status' = NotEntered /\ outcome' = "success"
             /\ UNCHANGED <<suspended, dispatched, reentries>>
        ELSE LET top == suspended[Len(suspended)] IN
             /\ pc' = "incall" /\ idx' = top.idx /\ run' = top.run
             /\ trace' = top.trace /\ afterCalls' = top.afterCalls
             /\ dispatched' = top.dispatched /\ reentries' = top.reentries
             /\ suspended' = SubSeq(suspended, 1, Len(suspended) - 1)
             /\ status' = NotEntered
             /\ UNCHANGED outcome

\* a revert inside the frame: every effect since its entry is undone
RevertTx ==
  /\ bal' = run.pre.bal /\ eth' = run.pre.eth /\ allow' = run.pre.allow
  /\ IF suspended = <<>>
     THEN /\ pc' = "idle" /\ idx' = 0 /\ run' = [run EXCEPT !.failed = TRUE]
          /\ status' = NotEntered /\ outcome' = "reverted"
          /\ UNCHANGED <<suspended, trace, dispatched, afterCalls, reentries>>
     ELSE LET top == suspended[Len(suspended)] IN
          /\ pc' = "incall" /\ idx' = top.idx /\ run' = top.run
          /\ trace' = top.trace /\ afterCalls' = top.afterCalls
          /\ dispatched' = top.dispatched /\ reentries' = top.reentries
          /\ suspended' = SubSeq(suspended, 1, Len(suspended) - 1)
          /\ UNCHANGED <<status, outcome>>

\* execute(pulls, approvals, calls, tokensToFlush) called by `sender` with `value`
\* attached: the modifiers, then the snapshot
CallExecute(sender, value, pulls, approvals, calls, flush, tried) ==
  LET ok == EntryGuardsPass(status, paused)
      e1 == [eth EXCEPT ![sender] = @ - value, ![Executor] = @ + value]
      r == [caller |-> sender, value |-> value, pulls |-> pulls,
            approvals |-> approvals, calls |-> calls, tokensToFlush |-> flush,
            ethBalanceBefore |-> e1[Executor] - value,
            tokenBalancesBefore |-> SnapshotBalances(bal, flush),
            pre |-> [bal |-> bal, eth |-> eth, allow |-> allow],
            failed |-> FALSE]
      pos == NextPos(r, 0, 0)
  IN /\ UNCHANGED <<buildVars, priceVars, calcVars>>
     /\ attempt' = [sender |-> sender, paused |-> paused,
                    entered |-> (status = Entered), nested |-> (pc # "idle"),
                    accepted |-> ok]
     /\ IF ok
        THEN /\ eth' = e1 /\ run' = r /\ status' = Entered
             /\ pc' = pos.pc /\ idx' = pos.idx
             /\ trace' = <<"snapshot">> /\ dispatched' = <<>> /\ afterCalls' = bal
             /\ suspended' = IF pc = "idle" THEN suspended ELSE Append(suspended, Frame)
             /\ reentries' = 0
             /\ UNCHANGED <<bal, allow, paused, outcome>>
        ELSE /\ outcome' = IF pc = "idle" THEN "rejected" ELSE outcome
             /\ reentries' = tried
             /\ UNCHANGED <<bal, eth, allow, paused, status, run, pc, idx, suspended,
                            trace, dispatched, afterCalls>>

Callers == {Alice}

Execute ==
  /\ pc = "idle" /\ outcome \in {"none", "rejected"}
  /\ \E caller \in Callers, value \in 0..1, pulls \in PullChoices,
        approvals \in ApprovalChoices, calls \in CallChoices, flush \in FlushChoices :
       /\ eth[caller] >= value
       /\ CallExecute(caller, value, pulls, approvals, calls, flush, 0)

\* _pullTokens, one iteration
PullStep ==
  /\ pc = "pull"
  /\ LET p == run.pulls[idx] IN
     IF CanTransferFrom(bal, allow, p.token, run.caller, Executor, p.amount)
     THEN Proceed("pull", run, Move(bal, p.token, run.caller, Executor, p.amount), eth,
                  SpendAllowance(allow, p.token, run.caller, Executor, p.amount))
     ELSE RevertTx
  /\ UNCHANGED <<paused, attempt, buildVars, priceVars, calcVars>>

\* _setApprovals, one iteration
ApproveStep ==
  /\ pc = "approve"
  /\ LET a == run.approvals[idx] IN
     IF CanApprove(a.token, a.spender)
     THEN Proceed("approve", run, bal, eth,
                  [allow EXCEPT ![a.token][Executor][a.spender] = a.amount])
     ELSE RevertTx
  /\ UNCHANGED <<paused, attempt, buildVars, priceVars, calcVars>>

\* if (!success) revert ...
IgnoresFailure(success) == FALSE

RevertsOn(success) == ~success

AfterCall(success, b2, e2, a2) ==
  IF RevertsOn(success) THEN RevertTx
  ELSE Proceed("call", [run EXCEPT !.failed = @ \/ ~success], b2, e2, a2)

\* _performCalls, one iteration up to the external call
DispatchStep ==
  /\ pc = "call"
  /\ LET c == run.calls[idx]
         inj == c.injectToken # ZeroAddress
         injectedAmount == IF inj THEN bal[c.injectToken][Executor] ELSE 0
         data == IF inj THEN Inject(c.data, c.injectOffset, injectedAmount) ELSE c.data
     IN IF inj /\ injectedAmount = 0 THEN RevertTx
        ELSE IF inj /\ ~OffsetInBounds(c.injectOffset, Len(c.data)) THEN RevertTx
        ELSE IF eth[Executor] < c.value THEN AfterCall(FALSE, bal, eth, allow)
        ELSE /\ eth' = [eth EXCEPT ![Executor] = @ - c.value, ![c.target] = @ + c.value]
             /\ dispatched' = Append(dispatched,
                    [index |-> idx, target |-> c.target, value |-> c.value, data |-> data,
                     held |-> [t \in WorldTokens |-> bal[t][Executor]],
                     steps |-> Len(trace)])
             /\ pc' = "incall" /\ reentries' = 0
             /\ UNCHANGED <<bal, allow, status, run, idx, suspended, trace, afterCalls,
                            outcome>>
  /\ UNCHANGED <<paused, attempt, buildVars, priceVars, calcVars>>

\* what the callee does with the call: it may take tokens the executor has
\* approved to it, pay tokens out of its own balance, and send native currency
CalleeEffects(tgt, who) ==
  {e \in [takeTok : WorldTokens, take : 0..2, giveTok : WorldTokens, give : 0..1,
          to : {Executor, who}, ethBack : 0..1] :
     /\ e.takeTok # e.giveTok
     /\ e.take \in {0, Min(bal[e.takeTok][Executor], allow[e.takeTok][Executor][tgt])}
     /\ e.give <= bal[e.giveTok][tgt]
     /\ e.ethBack <= eth[tgt]}

CalleeReturns ==
  /\ pc = "incall" /\ run.calls[idx].target \in Routers
  /\ LET c == run.calls[idx] IN
     \E e \in CalleeEffects(c.target, run.caller) :
       LET b1 == Move(bal, e.takeTok, Executor, c.target, e.take)
           b2 == Move(b1, e.giveTok, c.target, e.to, e.give)
           a2 == SpendAllowance(allow, e.takeTok, Executor, c.target, e.take)
           e2 == [eth EXCEPT ![c.target] = @ - e.ethBack, ![Executor] = @ + e.ethBack]
       IN AfterCall(TRUE, b2, e2, a2)
  /\ UNCHANGED <<paused, attempt, buildVars, priceVars, calcVars>>

CalleeReverts ==
  /\ pc = "incall" /\ run.calls[idx].target \in Routers
  /\ LET c == run.calls[idx] IN
     AfterCall(FALSE, bal,
               [eth EXCEPT ![c.target] = @ - c.value, ![Executor] = @ + c.value], allow)
  /\ UNCHANGED <<paused, attempt, buildVars, priceVars, calcVars>>

\* the address a word of call data stands for
AddrOfWord(w) ==
  IF WordValue(w) \in 1..Len(AddrList) THEN AddrList[WordValue(w)] ELSE ZeroAddress

\* the callee is a token contract: transferFrom moves `amount` from `from` to
\* `to` on the allowance `from` gave the executor (the msg.sender of the call),
\* and reverts without it; any other function of the token reverts
TokenCallReturns ==
  /\ pc = "incall" /\ run.calls[idx].target \in WorldTokens
  /\ LET tok == run.calls[idx].target
         data == dispatched[Len(dispatched)].data
         from == AddrOfWord(WordAt(data, 4))
         to == AddrOfWord(WordAt(data, 4 + WordSize))
         amount == WordValue(WordAt(data, 4 + 2 * WordSize))
     IN IF /\ Len(data) = 4 + 3 * WordSize /\ SubSeq(data, 1, 4) = SelTransferFrom
           /\ to \in Holders
           /\ CanTransferFrom(bal, allow, tok, from, Executor, amount)
        THEN AfterCall(TRUE, Move(bal, tok, from, to, amount), eth,
                       SpendAllowance(allow, tok, from, Executor, amount))
        ELSE AfterCall(FALSE, bal, eth, allow)
  /\ UNCHANGED <<paused, attempt, buildVars, priceVars, calcVars>>

\* the callee calls back into execute
CalleeReenters ==
  /\ pc = "incall" /\ reentries < MaxReenter /\ run.calls[idx].target \in Routers
  /\ \E approvals \in ApprovalChoices, flush \in FlushChoices :
       CallExecute(run.calls[idx].target, 0, <<>>, approvals, <<>>, flush, reentries + 1)

\* if (a.revokeAfter) forceApprove(a.spender, 0)
RevokesEntry(a) == a.revokeAfter

\* _revokeApprovals, one iteration
RevokeStep ==
  /\ pc = "revoke"
  /\ LET a == run.approvals[idx] IN
     Proceed("revoke", run, bal, eth,
             IF RevokesEntry(a) THEN [allow EXCEPT ![a.token][Executor][a.spender] = 0]
             ELSE allow)
  /\ UNCHANGED <<paused, attempt, buildVars, priceVars, calcVars>>

\* if (balanceAfter > balancesBefore[i]) safeTransfer(recipient, balanceAfter - balancesBefore[i])
FlushWholeBalance(balanceAfter, before) == balanceAfter

FlushAmount(balanceAfter, before) ==
  IF balanceAfter > before THEN balanceAfter - before ELSE 0

\* _flushDeltas, one iteration of the token loop
FlushStep ==
  /\ pc = "flush"
  /\ LET tok == run.tokensToFlush[idx]
         balanceAfter == bal[tok][Executor]
         before == run.tokenBalancesBefore[idx]
     IN Proceed("flush", run,
                Move(bal, tok, Executor, run.caller, FlushAmount(balanceAfter, before)),
                eth, allow)
  /\ UNCHANGED <<paused, attempt, buildVars, priceVars, calcVars>>

\* _flushDeltas, the native balance
FlushNativeStep ==
  /\ pc = "flushNative"
  /\ LET ethBalanceAfter == eth[Executor] IN
     Proceed("flushNative", run, bal,
             IF ethBalanceAfter > run.ethBalanceBefore
             THEN [eth EXCEPT ![Executor] = run.ethBalanceBefore,
                              ![run.caller] = @ + (ethBalanceAfter - run.ethBalanceBefore)]
             ELSE eth,
             allow)
  /\ UNCHANGED <<paused, attempt, buildVars, priceVars, calcVars>>

Pause ==
  /\ pc = "idle" /\ outcome \in {"none", "rejected"} /\ ~paused
  /\ paused' = TRUE
  /\ UNCHANGED <<bal, eth, allow, status, run, pc, idx, suspended, trace, dispatched,
                 afterCalls, attempt, outcome, reentries, buildVars, priceVars,
                 calcVars>>

Unpause ==
  /\ pc = "idle" /\ outcome \in {"none", "rejected"} /\ paused
  /\ paused' = FALSE
  /\ UNCHANGED <<bal, eth, allow, status, run, pc, idx, suspended, trace, dispatched,
                 afterCalls, attempt, outcome, reentries, buildVars, priceVars,
                 calcVars>>

NoAttempt ==
  [sender |-> ZeroAddress, paused |-> FALSE, entered |-> FALSE, nested |-> FALSE,
   accepted |-> FALSE]

NoRequest ==
  [quote |-> [path |-> <<>>, sources |-> <<>>, hopVersions |-> <<>>, amountIn |-> 0,
              amountOut |-> 0],
   recipient |-> ZeroAddress, amountOutMin |-> 0, slippageBps |-> 0,
   deadlineSeconds |-> 0, now |-> 0, useNativeInput |-> FALSE,
   useNativeOutput |-> FALSE, executor |-> ZeroAddress,
   wrappedNativeAddress |-> ZeroAddress, dexes |-> <<>>, interhopBufferBps |-> 0]

NoTx == [ok |-> FALSE, error |-> "nothing built"]

NoSettlement == [ok |-> FALSE, caller |-> ZeroAddress]

NoQuote == [kind |-> "none"]

NoCalc == [fn |-> "none"]

\* ------------------------------------------------------------------------
\* The pair-address caches (v2PairCache, v3PoolCache)
\* ------------------------------------------------------------------------
\* POOL_CACHE_TTL_MS (5 minutes in the code) and the last instant of the model
PoolCacheTtl == 2
MaxClock == 4

\* token addresses as callers spell them, and String.prototype.toLowerCase
Spellings == {"0xaa", "0xAA", "0xbb"}

ToLowerCase(text) == IF text = "0xAA" THEN "0xaa" ELSE text

CacheKinds == {"v2", "v3"}

\* `${chainId}:${factoryAddress}:${tokenA.toLowerCase()}:${tokenB.toLowerCase()}`,
\* with `:${fee}` for a v3 pool; chain, factory and fee are fixed
CacheKey(kind, tokenA, tokenB) == <<kind, ToLowerCase(tokenA), ToLowerCase(tokenB)>>

CacheKeys ==
  {CacheKey(kind, a, b) : kind \in CacheKinds, a \in Spellings, b \in Spellings}

NoEntry == [address |-> "none", timestamp |-> 0]

NoLookup == [kind |-> "none"]

PairAddresses == {"0xp1", "0xp2"}

ExecInit ==
  /\ req = NoRequest /\ tx = NoTx /\ again = NoTx /\ settled = NoSettlement
  /\ ask = [amountIn |-> 0] /\ ppc = "idle" /\ pending = <<>> /\ legA = NoQuote
  /\ candidates = <<>> /\ quoted = NoQuote /\ failedReads = {}
  /\ calc = NoCalc
  /\ cache = [key \in CacheKeys |-> NoEntry] /\ clock = 0 /\ lookup = NoLookup
  /\ \E dust \in 0..1 :
       /\ bal = [t \in WorldTokens |->
                  IF t = TokA
                  THEN [h \in Holders |->
                          CASE h = Executor -> dust [] h = Alice -> 2 [] h = Bob -> 1
                            [] OTHER -> 0]
                  ELSE [h \in Holders |-> IF h = RouterV2 THEN 2 ELSE 0]]
       /\ allow = [t \in WorldTokens |-> [o \in Owners |-> [sp \in Spenders |->
                    IF t = TokA /\ sp = Executor /\ o = Alice THEN 2
                    ELSE IF t = TokA /\ sp = Executor /\ o = Bob THEN 1
                    ELSE IF t = TokA /\ sp = RouterV2 /\ o = Executor THEN dust
                    ELSE 0]]]
  /\ eth = [h \in Holders |-> IF h \in {Alice, RouterV2} THEN 1 ELSE 0]
  /\ paused = FALSE /\ status = NotEntered
  /\ run = NoRun /\ pc = "idle" /\ idx = 0 /\ suspended = <<>>
  /\ trace = <<>> /\ dispatched = <<>> /\ afterCalls = bal
  /\ attempt = NoAttempt /\ outcome = "none" /\ reentries = 0

ExecNext ==
  \/ Execute
  \/ PullStep
  \/ ApproveStep
  \/ DispatchStep
  \/ CalleeReturns
  \/ CalleeReverts
  \/ CalleeReenters
  \/ TokenCallReturns
  \/ RevokeStep
  \/ FlushStep
  \/ FlushNativeStep
  \/ Pause
  \/ Unpause

ExecSpec == ExecInit /\ [][ExecNext]_execVars

\* ------------------------------------------------------------------------
\* Properties of the executor
\* ------------------------------------------------------------------------
Ended == pc = "idle" /\ run # NoRun
Succeeded == Ended /\ outcome = "success"
Reverted == Ended /\ outcome = "reverted"

Count(seq, x) == Cardinality({k \in 1..Len(seq) : seq[k] = x})

Max0(x) == IF x > 0 THEN x ELSE 0

WorldIsPre == bal = run.pre.bal /\ eth = run.pre.eth /\ allow = run.pre.allow

\* C1: after a successful execute, every approval entry's spender has a zero
\* allowance from the executor on the entry's token, whatever the entry's
\* revokeAfter flag.
C1_EveryApprovalRevoked ==
  Succeeded =>
    \A i \in 1..Len(run.approvals) :
      allow[run.approvals[i].token][Executor][run.approvals[i].spender] = 0

\* C2: when a pull, an approval, an injection check or an external call of an
\* execute call fails, the call reverts and all balances, native balances and
\* allowances are what they were before the call.
C2_FailureRollsBack ==
  (Ended /\ run.failed) => (outcome = "reverted" /\ WorldIsPre)

C2_Witness ==
  /\ Reverted /\ run.failed
  /\ Count(trace, "pull") >= 1 /\ Count(trace, "approve") >= 1 /\ Len(dispatched) >= 1

\* C3 as stated: after a successful execute, for every flushed token, the
\* caller's balance after the call minus its balance before the call is
\* max(0, executor balance after the calls - snapshot).
C3_CallerDeltaSinceEntry ==
  Succeeded =>
    \A i \in 1..Len(run.tokensToFlush) :
      LET tok == run.tokensToFlush[i] IN
      bal[tok][run.caller] - run.pre.bal[tok][run.caller]
        = Max0(afterCalls[tok][Executor] - run.tokenBalancesBefore[i])

\* C3 amended: after a successful execute, for every flushed token, the
\* caller's balance after the call minus its balance when the flush phase
\* starts (after the pulls and the calls) is max(0, executor balance after the
\* calls - snapshot).
C3_CallerDeltaSinceCalls ==
  Succeeded =>
    \A i \in 1..Len(run.tokensToFlush) :
      LET tok == run.tokensToFlush[i] IN
      bal[tok][run.caller] - afterCalls[tok][run.caller]
        = Max0(afterCalls[tok][Executor] - run.tokenBalancesBefore[i])

C3_Witness ==
  /\ Succeeded
  /\ \E i \in 1..Len(run.tokensToFlush) :
       LET tok == run.tokensToFlush[i] IN
       /\ afterCalls[tok][Executor] > run.tokenBalancesBefore[i]
       /\ run.tokenBalancesBefore[i] > 0
       /\ bal[tok][run.caller] > afterCalls[tok][run.caller]
  /\ Len(run.pulls) >= 1

\* C4: the steps of one execute call come in the order snapshot, pulls,
\* approvals, calls, revocations, flush; the snapshot holds the balances from
\* before the call (native balance less the attached value); every call is
\* dispatched after all pulls and approvals; revocation and flush come after
\* the last call has returned.
StepRank(step) ==
  CASE step = "snapshot" -> 0 [] step = "pull" -> 1 [] step = "approve" -> 2
    [] step = "call" -> 3 [] step = "revoke" -> 4 [] step = "flush" -> 5
    [] step = "flushNative" -> 6

C4_PhasesInOrder ==
  run # NoRun =>
    /\ trace[1] = "snapshot"
    /\ \A k \in 1..(Len(trace) - 1) : StepRank(trace[k]) <= StepRank(trace[k + 1])
    /\ run.ethBalanceBefore = run.pre.eth[Executor]
    /\ \A i \in 1..Len(run.tokensToFlush) :
         run.tokenBalancesBefore[i] = run.pre.bal[run.tokensToFlush[i]][Executor]
    /\ \A k \in 1..Len(dispatched) :
         LET before == SubSeq(trace, 1, dispatched[k].steps) IN
         /\ Count(before, "pull") = Len(run.pulls)
         /\ Count(before, "approve") = Len(run.approvals)
         /\ Count(before, "call") = dispatched[k].index - 1
         /\ dispatched[k].index = k
    /\ (\E k \in 1..Len(trace) : trace[k] \in {"revoke", "flush", "flushNative"})
         => Count(trace, "call") = Len(run.calls)
    /\ Succeeded =>
         /\ Count(trace, "pull") = Len(run.pulls)
         /\ Count(trace, "approve") = Len(run.approvals)
         /\ Count(trace, "revoke") = Len(run.approvals)
         /\ Count(trace, "flush") = Len(run.tokensToFlush)
         /\ Count(trace, "flushNative") = 1

C4_Witness ==
  /\ Succeeded
  /\ Len(run.pulls) = 2 /\ Len(run.approvals) = 2 /\ Len(run.calls) = 2
  /\ Len(run.tokensToFlush) = 2 /\ run.value = 1

\* C5: execute is accepted only when the executor is not paused and no execute
\* call is in progress; a nested execute from a callee is rejected, so no
\* second run is ever in progress inside the first.
C5_GuardedEntry ==
  /\ attempt.accepted => (~attempt.paused /\ ~attempt.entered /\ ~attempt.nested)
  /\ suspended = <<>>
  /\ (pc # "idle") <=> (status = Entered)

C5_Witness ==
  /\ pc = "incall" /\ attempt.nested /\ attempt.entered /\ ~attempt.accepted
  /\ reentries = 1

\* C6: a call with a non-zero injectToken whose injectOffset + 32 exceeds the
\* payload length is never dispatched, and an execute holding such a call ends
\* reverted with balances and allowances unchanged.
PastEnd(c) == c.injectToken # ZeroAddress /\ c.injectOffset + WordSize > Len(c.data)

C6_OffsetPastEndRejected ==
  /\ \A k \in 1..Len(dispatched) : ~PastEnd(run.calls[dispatched[k].index])
  /\ (Ended /\ \E i \in 1..Len(run.calls) : PastEnd(run.calls[i]))
       => (outcome = "reverted" /\ WorldIsPre)

C6_Witness ==
  /\ Reverted
  /\ Len(run.calls) = 2 /\ PastEnd(run.calls[2]) /\ Len(dispatched) = 1
  /\ run.pre.bal[run.calls[2].injectToken][Executor] > 0

\* C7: a dispatched call with a non-zero injectToken carries, at injectOffset,
\* the executor's balance of injectToken at the moment of dispatch, which is
\* not zero, and is otherwise the planned payload; a call with a zero
\* injectToken is dispatched with its payload unchanged.
C7_InjectedWord ==
  \A k \in 1..Len(dispatched) :
    LET d == dispatched[k]
        c == run.calls[d.index]
    IN IF c.injectToken # ZeroAddress
       THEN /\ d.held[c.injectToken] > 0
            /\ Len(d.data) = Len(c.data)
            /\ WordAt(d.data, c.injectOffset) = Word(d.held[c.injectToken])
            /\ \A b \in 1..Len(c.data) :
                 (b <= c.injectOffset \/ b > c.injectOffset + WordSize)
                   => d.data[b] = c.data[b]
       ELSE d.data = c.data

C7_Witness ==
  /\ Len(dispatched) = 2
  /\ run.calls[2].injectToken = TokB
  /\ dispatched[2].held[TokB] = 1
  /\ run.pre.bal[TokB][Executor] = 0
  /\ WordAt(dispatched[2].data, 4) = Word(1)

\* ------------------------------------------------------------------------
\* SwapBuilder: call encodings
\* ------------------------------------------------------------------------
EncodeV2DeadlineBeforeRecipient(tokenIn, tokenOut, amountIn, amountOutMin, recipient, deadline) ==
  Concat(<<SelSwapExactTokensForTokens, Word(amountIn), Word(amountOutMin),
           Word(5 * WordSize), Word(deadline), AddrWord(recipient), Word(2),
           AddrWord(tokenIn), AddrWord(tokenOut)>>)

\* swapExactTokensForTokens(amountIn, amountOutMin, path, to, deadline)
EncodeV2SingleHopCall(tokenIn, tokenOut, amountIn, amountOutMin, recipient, deadline) ==
  Concat(<<SelSwapExactTokensForTokens, Word(amountIn), Word(amountOutMin),
           Word(5 * WordSize), AddrWord(recipient), Word(deadline), Word(2),
           AddrWord(tokenIn), AddrWord(tokenOut)>>)

\* exactInputSingle((tokenIn, tokenOut, fee, recipient, [deadline,] amountIn,
\* amountOutMinimum, sqrtPriceLimitX96))
EncodeV3SingleHopCall(tokenIn, tokenOut, feeTier, amountIn, amountOutMin, recipient, deadline, useRouter02) ==
  IF useRouter02
  THEN Concat(<<SelExactInputSingle02, AddrWord(tokenIn), AddrWord(tokenOut),
                Word(feeTier), AddrWord(recipient), Word(amountIn), Word(amountOutMin),
                Word(0)>>)
  ELSE Concat(<<SelExactInputSingle, AddrWord(tokenIn), AddrWord(tokenOut),
                Word(feeTier), AddrWord(recipient), Word(deadline), Word(amountIn),
                Word(amountOutMin), Word(0)>>)

\* ------------------------------------------------------------------------
\* SwapBuilder: chain configuration and helpers
\* ------------------------------------------------------------------------
Dex(id, protocol, version, router) ==
  [id |-> id, protocol |-> protocol, version |-> version, routerAddress |-> router]

ChainDexes ==
  <<Dex("pancake-v2", "pancakeswap", "v2", RouterV2),
    Dex("pancake-v3", "pancakeswap", "v3", RouterV3),
    Dex("uniswap-v3", "uniswap", "v3", Router02)>>

\* chain.dexes.find((entry) => entry.id === source.dexId): <<>> when none
FindDex(dexes, dexId) ==
  LET hits == {k \in 1..Len(dexes) : dexes[k].id = dexId} IN
  IF hits = {} THEN <<>>
  ELSE <<dexes[CHOOSE k \in hits : \A j \in hits : k <= j]>>

Range(seq) == {seq[k] : k \in 1..Len(seq)}

SetAddIgnored(seq, x) == seq

\* Set.add followed by Array.from: insertion order, no duplicates
SetAdd(seq, x) == IF x \in Range(seq) THEN seq ELSE Append(seq, x)

SlippageCap == 5000
BpsDenominator == 10000
DefaultDeadlineSeconds == 600

ClampSlippage(value) ==
  IF value < 0 THEN 0 ELSE IF value > SlippageCap THEN SlippageCap ELSE value

ApplySlippageRoundedDown(amount, slippageBps) ==
  IF amount = 0 \/ slippageBps <= 0 THEN amount
  ELSE (amount * (BpsDenominator - slippageBps)) \div BpsDenominator

ApplySlippage(amount, slippageBps) ==
  IF amount = 0 \/ slippageBps <= 0 THEN amount
  ELSE LET penalty == (amount * slippageBps) \div BpsDenominator IN
       IF amount > penalty THEN amount - penalty ELSE 0

DeriveHopMinOutProportional(hopExpectedOut, totalMinOut, totalExpectedOut, isLastHop) ==
  (hopExpectedOut * totalMinOut) \div totalExpectedOut

DeriveHopMinOut(hopExpectedOut, totalMinOut, totalExpectedOut, isLastHop) ==
  IF isLastHop THEN totalMinOut
  ELSE IF totalExpectedOut = 0 \/ hopExpectedOut = 0 THEN 0
  ELSE (hopExpectedOut * totalMinOut) \div totalExpectedOut

\* constructor: interhopBufferBps > 0 ? Math.floor(interhopBufferBps) : 0
BufferBpsOf(configured) == IF configured > 0 THEN configured ELSE 0

NoClamp(quotedHopAmountIn, availableAmount) == quotedHopAmountIn

ClampToAvailable(quotedHopAmountIn, availableAmount) ==
  IF quotedHopAmountIn <= availableAmount THEN quotedHopAmountIn ELSE availableAmount

BufferedAmountUnguarded(index, bufferBps, hopAmountIn) ==
  IF index > 0 /\ bufferBps > 0 /\ hopAmountIn > 0
  THEN hopAmountIn - (hopAmountIn * bufferBps) \div BpsDenominator
  ELSE hopAmountIn

\* the inter-hop buffer of lines 240-245
BufferedAmount(index, bufferBps, hopAmountIn) ==
  IF index > 0 /\ bufferBps > 0 /\ hopAmountIn > 0
  THEN LET buffer == (hopAmountIn * bufferBps) \div BpsDenominator IN
       IF buffer > 0 /\ buffer < hopAmountIn THEN hopAmountIn - buffer ELSE hopAmountIn
  ELSE hopAmountIn

ExactApprovalAlways(index, hopAmountIn) == hopAmountIn

ApprovalAmount(index, hopAmountIn) == IF index > 0 THEN MaxUint256 ELSE hopAmountIn

V2InjectOffset == 4
Router02InjectOffset == 132
V3InjectOffset == 164
UnwrapInjectOffset == 4

InjectOffsetOneV3Shape(index, hopVersion, isUniswapV3) ==
  IF index > 0
  THEN IF hopVersion = "v2" THEN V2InjectOffset ELSE V3InjectOffset
  ELSE 0

InjectOffsetOf(index, hopVersion, isUniswapV3) ==
  IF index > 0
  THEN IF hopVersion = "v2" THEN V2InjectOffset
       ELSE IF isUniswapV3 THEN Router02InjectOffset
       ELSE V3InjectOffset
  ELSE 0

\* ------------------------------------------------------------------------
\* SwapBuilder.build and buildExecutorSwap
\* ------------------------------------------------------------------------
BuildError(msg) == [ok |-> FALSE, error |-> msg]

LoopErrorSwallowed(acc, msg) == acc

LoopError(acc, msg) == [acc EXCEPT !.ok = FALSE, !.error = msg]

HopRecipientAlwaysEndRecipient(isLastHop, useNativeOutput, recipient, executorAddress) ==
  IF isLastHop THEN recipient ELSE executorAddress

\* the recipient of a hop's output: the executor, unless it is the last hop and
\* nothing is unwrapped after it
HopRecipient(isLastHop, useNativeOutput, recipient, executorAddress) ==
  IF isLastHop /\ ~useNativeOutput THEN recipient ELSE executorAddress

\* the deposit call that wraps the native input
WrapCall(wrappedNativeAddress, amountIn) ==
  [target |-> wrappedNativeAddress, value |-> amountIn,
   data |-> EncodeDeposit, injectToken |-> ZeroAddress, injectOffset |-> 0]

UnwrapCallFixedAmount(wrappedNativeAddress) ==
  [target |-> wrappedNativeAddress, value |-> 0, data |-> EncodeWithdraw(0),
   injectToken |-> ZeroAddress, injectOffset |-> 0]

\* the withdraw call that unwraps the output; its amount is injected
UnwrapCall(wrappedNativeAddress) ==
  [target |-> wrappedNativeAddress, value |-> 0, data |-> EncodeWithdraw(0),
   injectToken |-> wrappedNativeAddress, injectOffset |-> UnwrapInjectOffset]

\* one iteration of the hop loop, index counted from 0; params is the request (chain, quote, parameters),
\* amountOutMin and deadline the values build passes down
HopStep(params, amountOutMin, deadline, acc, index) ==
  LET quote == params.quote
      source == quote.sources[index + 1]
  IN
  IF index + 2 > Len(quote.path)
  THEN LoopError(acc, "Route token metadata missing for executor construction")
  ELSE IF index + 1 > Len(quote.hopVersions)
  THEN LoopError(acc, "Route hop version missing for executor construction")
  ELSE
  LET tokenIn == quote.path[index + 1]
      tokenOut == quote.path[index + 2]
      hopVersion == quote.hopVersions[index + 1]
      found == FindDex(params.dexes, source.dexId)
      quotedHopAmountIn == source.amountIn
  IN
  IF found = <<>> THEN LoopError(acc, "DEX is not configured for chain")
  ELSE IF quotedHopAmountIn <= 0
  THEN LoopError(acc, "Missing hop amountIn for executor construction")
  ELSE IF acc.availableAmount <= 0
  THEN LoopError(acc, "Insufficient rolling amount for executor construction")
  ELSE
  LET dex == found[1]
      hopAmountIn ==
        BufferedAmount(index, BufferBpsOf(params.interhopBufferBps),
                       ClampToAvailable(quotedHopAmountIn, acc.availableAmount))
      isLastHop == (index = Len(quote.sources) - 1)
      hopRecipient ==
        HopRecipient(isLastHop, params.useNativeOutput, params.recipient, params.executor)
      hopExpectedOut == source.amountOut
  IN
  IF hopAmountIn <= 0
  THEN LoopError(acc, "Computed hop amountIn is non-positive after buffer adjustment")
  ELSE IF hopExpectedOut <= 0
  THEN LoopError(acc, "Missing hop amountOut for executor construction")
  ELSE IF hopVersion # "v2" /\ source.feeTier = <<>>
  THEN LoopError(acc, "Missing fee tier for V3 hop")
  ELSE
  LET scaledHopExpectedOut == (hopExpectedOut * hopAmountIn) \div quotedHopAmountIn
      hopMinOut == DeriveHopMinOut(scaledHopExpectedOut, amountOutMin, quote.amountOut,
                                   isLastHop)
      isUniswapV3 == dex.protocol = "uniswap" /\ hopVersion = "v3"
      swapCallData ==
        IF hopVersion = "v2"
        THEN EncodeV2SingleHopCall(tokenIn, tokenOut, hopAmountIn, hopMinOut,
                                   hopRecipient, deadline)
        ELSE EncodeV3SingleHopCall(tokenIn, tokenOut, source.feeTier[1], hopAmountIn,
                                   hopMinOut, hopRecipient, deadline, isUniswapV3)
      plannedCall ==
        [target |-> dex.routerAddress, value |-> 0, data |-> swapCallData,
         injectToken |-> IF index > 0 THEN tokenIn ELSE ZeroAddress,
         injectOffset |-> InjectOffsetOf(index, hopVersion, isUniswapV3)]
      flushIn == SetAdd(acc.tokensToFlush, tokenIn)
  IN
  [acc EXCEPT
     !.approvals = Append(@, [token |-> tokenIn, spender |-> dex.routerAddress,
                              amount |-> ApprovalAmount(index, hopAmountIn)]),
     !.executorCalls = Append(@, plannedCall),
     !.tokensToFlush =
        IF hopRecipient = params.executor THEN SetAdd(flushIn, tokenOut) ELSE flushIn,
     !.calls = Append(@, [target |-> plannedCall.target, allowFailure |-> FALSE,
                          callData |-> plannedCall.data, value |-> plannedCall.value]),
     !.availableAmount = scaledHopExpectedOut]

RECURSIVE HopLoop(_, _, _, _, _)
HopLoop(params, amountOutMin, deadline, acc, index) ==
  IF ~acc.ok \/ index >= Len(params.quote.sources) THEN acc
  ELSE HopLoop(params, amountOutMin, deadline,
               HopStep(params, amountOutMin, deadline, acc, index), index + 1)

BuildExecutorSwap(params, amountOutMin, deadline) ==
  LET quote == params.quote IN
  IF params.executor = ZeroAddress THEN BuildError("Executor not configured for chain")
  ELSE IF Len(quote.path) = 0 THEN BuildError("Quote is missing input token metadata")
  ELSE IF params.useNativeInput /\ params.wrappedNativeAddress = ZeroAddress
  THEN BuildError("Wrapped native address not configured for chain")
  ELSE
  LET inputToken == quote.path[1]
      wrapCall == WrapCall(params.wrappedNativeAddress, quote.amountIn)
      unwrapCall == UnwrapCall(params.wrappedNativeAddress)
      start ==
        [ok |-> TRUE, error |-> "",
         approvals |-> <<>>,
         executorCalls |-> IF params.useNativeInput THEN <<wrapCall>> ELSE <<>>,
         tokensToFlush |->
           IF params.useNativeInput THEN <<params.wrappedNativeAddress>> ELSE <<inputToken>>,
         calls |-> <<>>,
         availableAmount |-> quote.amountIn]
      done == HopLoop(params, amountOutMin, deadline, start, 0)
  IN
  IF ~done.ok THEN BuildError(done.error)
  ELSE IF params.useNativeOutput /\ params.wrappedNativeAddress = ZeroAddress
  THEN BuildError("Wrapped native address not configured for chain")
  ELSE
  [ok |-> TRUE, error |-> "", kind |-> "executor",
   dexId |-> IF Len(quote.sources) = 1 THEN quote.sources[1].dexId ELSE "multi",
   router |-> params.executor, spender |-> params.executor,
   amountIn |-> quote.amountIn, amountOut |-> quote.amountOut,
   amountOutMinimum |-> amountOutMin, deadline |-> deadline,
   calls |-> done.calls,
   call |-> [to |-> params.executor,
             value |-> IF params.useNativeInput THEN quote.amountIn ELSE 0],
   executor |->
     [pulls |-> IF params.useNativeInput THEN <<>>
                ELSE <<[token |-> inputToken, amount |-> quote.amountIn]>>,
      approvals |-> done.approvals,
      calls |-> IF params.useNativeOutput THEN Append(done.executorCalls, unwrapCall)
                ELSE done.executorCalls,
      tokensToFlush |->
        IF params.useNativeOutput THEN SetAdd(done.tokensToFlush, params.wrappedNativeAddress)
        ELSE done.tokensToFlush]]

Build(params) ==
  IF Len(params.quote.sources) = 0 THEN BuildError("Quote is missing source information")
  ELSE
  LET deadlineSeconds ==
        IF params.deadlineSeconds > 0 THEN params.deadlineSeconds ELSE DefaultDeadlineSeconds
      deadline == params.now + deadlineSeconds
      boundedSlippage == ClampSlippage(params.slippageBps)
      amountOutMinimum ==
        IF params.amountOutMin > 0 THEN params.amountOutMin
        ELSE ApplySlippage(params.quote.amountOut, boundedSlippage)
  IN BuildExecutorSwap(params, amountOutMinimum, deadline)

\* ------------------------------------------------------------------------
\* Requests handed to the builder
\* ------------------------------------------------------------------------
\* routes of n hops: n + 1 tokens, none visited twice
PathChoices(n) ==
  {p \in [1..(n + 1) -> Tokens] : \A j, k \in 1..(n + 1) : j # k => p[j] # p[k]}

\* venue of a hop as the quote names it: dexId, hop version, fee tier if any
VenueChoices ==
  {<<"pancake-v2", "v2", <<>>>>, <<"pancake-v3", "v3", <<500>>>>,
   <<"uniswap-v3", "v3", <<500>>>>}

BrokenVenueChoices == {<<"sushi-v2", "v2", <<>>>>, <<"pancake-v3", "v3", <<>>>>}

\* quoted input and output of a hop
AmountChoices == {<<1000, 500>>, <<500, 900>>, <<1000, 1>>}

BrokenAmountChoices == {<<0, 7>>, <<7, 0>>}

BaseAmounts == <<1000, 500>>
BaseVenue == <<"pancake-v2", "v2", <<>>>>

HopChoices ==
  (VenueChoices \X AmountChoices)
    \cup (BrokenVenueChoices \X {BaseAmounts})
    \cup ({BaseVenue} \X BrokenAmountChoices)

SourceOf(h) ==
  [dexId |-> h[1][1], feeTier |-> h[1][3], amountIn |-> h[2][1], amountOut |-> h[2][2]]

QuoteOf(path, hops, amountIn) ==
  [path |-> path,
   sources |-> [k \in 1..Len(hops) |-> SourceOf(hops[k])],
   hopVersions |-> [k \in 1..Len(hops) |-> hops[k][1][2]],
   amountIn |-> amountIn,
   amountOut |-> hops[Len(hops)][2][2]]

TotalInChoices == {960, 1000}

QuoteChoices ==
  UNION {{QuoteOf(path, hops, amountIn) :
            path \in PathChoices(n), hops \in [1..n -> HopChoices],
            amountIn \in TotalInChoices} : n \in 1..MaxHops}

\* params.amountOutMin and params.slippageBps
MinOutChoices == {<<0, 50>>, <<0, 6000>>, <<890, 50>>}

\* config.interhopBufferBps
BufferChoices == {0, 3, 2500}

\* recipient, amountOutMin and slippageBps, deadlineSeconds, interhopBufferBps
ParamChoices ==
  ({Alice} \X MinOutChoices \X {0} \X BufferChoices)
    \cup {<<Bob, <<0, 50>>, 60, 3>>, <<Bob, <<890, 50>>, 60, 2500>>,
          <<Alice, <<0, 50>>, 0, 10000>>, <<Alice, <<0, 50>>, 0, 12000>>}

\* Date.now() / 1000 at the time of the build
NowSeconds == 1000

Request(quote, recipient, minOut, deadlineSeconds, nativeIn, nativeOut, executor, wrapped, bufferBps) ==
  [quote |-> quote, recipient |-> recipient, amountOutMin |-> minOut[1],
   slippageBps |-> minOut[2], deadlineSeconds |-> deadlineSeconds, now |-> NowSeconds,
   useNativeInput |-> nativeIn, useNativeOutput |-> nativeOut, executor |-> executor,
   wrappedNativeAddress |-> wrapped, dexes |-> ChainDexes,
   interhopBufferBps |-> bufferBps]

EmptyQuote ==
  [path |-> <<TokA, TokB>>, sources |-> <<>>, hopVersions |-> <<>>, amountIn |-> 1000,
   amountOut |-> 500]

OneHopQuote == QuoteOf(<<WNative, TokB>>, <<<<BaseVenue, BaseAmounts>>>>, 1000)

\* requests on a fully configured chain
ConfiguredRequests ==
  {Request(q, p[1], p[2], p[3], ni, no, Executor, WNative, p[4]) :
     q \in QuoteChoices, p \in ParamChoices, ni \in BOOLEAN, no \in BOOLEAN}

\* requests with no sources, no executor or no wrapped-native token configured
UnconfiguredRequests ==
  {Request(q, Alice, <<0, 50>>, 0, ni, FALSE, ex, wr, 3) :
     q \in {EmptyQuote, OneHopQuote}, ni \in BOOLEAN, ex \in {Executor, ZeroAddress},
     wr \in {WNative, ZeroAddress}}

\* native input and output are asked for only on routes that start, or end, at the
\* wrapped-native token
NativeFlagsFit(r) ==
  /\ r.useNativeInput => r.quote.path[1] = WNative
  /\ r.useNativeOutput => r.quote.path[Len(r.quote.path)] = WNative

Requests == {r \in ConfiguredRequests \cup UnconfiguredRequests : NativeFlagsFit(r)}

\* SwapBuilder.build(chain, params)
BuildSwap ==
  /\ tx = NoTx
  /\ \E r \in Requests : req' = r /\ tx' = Build(r)
  /\ UNCHANGED <<again, settled, chainVars, priceVars, calcVars>>

BuildInit == ExecInit /\ bal[TokA][Executor] = 0

BuildNext == BuildSwap

BuildSpec == BuildInit /\ [][BuildNext]_execVars

\* seconds of wall-clock time between two builds
LaterChoices == {1, 3600}

\* SwapBuilder.build(chain, params) is called a second time with the same chain,
\* quote and parameters; only Date.now() has moved on
BuildAgain ==
  /\ tx # NoTx /\ again = NoTx
  /\ \E later \in LaterChoices : again' = Build([req EXCEPT !.now = @ + later])
  /\ UNCHANGED <<req, tx, settled, chainVars, priceVars, calcVars>>

RebuildNext ==
  \/ BuildSwap
  \/ BuildAgain

RebuildSpec == BuildInit /\ [][RebuildNext]_execVars

\* ------------------------------------------------------------------------
\* Reading a built plan back: argument layouts of the router functions
\* ------------------------------------------------------------------------
\* swapExactTokensForTokens(amountIn, amountOutMin, path, to, deadline)
V2SwapFields == <<"amountIn", "amountOutMin", "path", "to", "deadline">>

\* exactInputSingle(params) of the router with a deadline field
V3ExactInputSingleFields ==
  <<"tokenIn", "tokenOut", "fee", "recipient", "deadline", "amountIn",
    "amountOutMin", "sqrtPriceLimitX96">>

\* exactInputSingle(params) of the router without a deadline field
V3Router02ExactInputSingleFields ==
  <<"tokenIn", "tokenOut", "fee", "recipient", "amountIn", "amountOutMin",
    "sqrtPriceLimitX96">>

\* byte position of a static argument: the selector, then one word per argument
FieldOffset(fields, name) ==
  Len(SelSwapExactTokensForTokens)
    + WordSize * ((CHOOSE k \in 1..Len(fields) : fields[k] = name) - 1)

ArgOf(data, fields, name) == WordValue(WordAt(data, FieldOffset(fields, name)))

\* ------------------------------------------------------------------------
\* A built plan sent to the executor: execute, run on a ledger of the caller,
\* the recipient and the executor, against venues that deliver the quoted rates
\* ------------------------------------------------------------------------
Native == "native"
Assets == Tokens \cup {Native}
Parties == Users \cup {Executor}

Credit(ledger, who, asset, amount) == [ledger EXCEPT ![<<who, asset>>] = @ + amount]

Debit(ledger, who, asset, amount) == [ledger EXCEPT ![<<who, asset>>] = @ - amount]

\* a revert inside execute
Fail(st) == [st EXCEPT !.ok = FALSE]

\* the function each router of the chain exposes, and its argument layout
RouterFunction(target) ==
  IF target = RouterV2 THEN <<SelSwapExactTokensForTokens, V2SwapFields>>
  ELSE IF target = RouterV3 THEN <<SelExactInputSingle, V3ExactInputSingleFields>>
  ELSE <<SelExactInputSingle02, V3Router02ExactInputSingleFields>>

\* a router swap called by the executor: it takes amountIn of tokenIn from the
\* executor on its allowance and pays the recipient named in the call at the
\* rate the quote gives for the hop; it reverts on a wrong payload, a missing
\* balance or allowance, an expired deadline or an output below amountOutMin
RouterSwap(st, request, target, data) ==
  LET fn == RouterFunction(target)
      fields == fn[2]
      isV2 == fields = V2SwapFields
      quote == request.quote
  IN
  IF Len(data) # 4 + WordSize * (IF isV2 THEN 8 ELSE Len(fields)) \/ SubSeq(data, 1, 4) # fn[1]
  THEN Fail(st)
  ELSE
  LET tokenIn ==
        AddrOfWord(WordAt(data, IF isV2 THEN 4 + 6 * WordSize
                                ELSE FieldOffset(fields, "tokenIn")))
      tokenOut ==
        AddrOfWord(WordAt(data, IF isV2 THEN 4 + 7 * WordSize
                                ELSE FieldOffset(fields, "tokenOut")))
      recipient ==
        AddrOfWord(WordAt(data, FieldOffset(fields, IF isV2 THEN "to" ELSE "recipient")))
      amountIn == ArgOf(data, fields, "amountIn")
      amountOutMin == ArgOf(data, fields, "amountOutMin")
      expired ==
        fields # V3Router02ExactInputSingleFields
          /\ ArgOf(data, fields, "deadline") < request.now
      pools == {i \in 1..Len(quote.sources) :
                  /\ quote.path[i] = tokenIn /\ quote.path[i + 1] = tokenOut
                  /\ FindDex(request.dexes, quote.sources[i].dexId) # <<>>
                  /\ FindDex(request.dexes, quote.sources[i].dexId)[1].routerAddress = target}
  IN
  IF pools = {} \/ recipient \notin Parties \/ expired \/ amountIn = 0 THEN Fail(st)
  ELSE
  LET pool == quote.sources[CHOOSE i \in pools : TRUE]
      amountOut == (pool.amountOut * amountIn) \div pool.amountIn
  IN
  IF \/ st.ledger[<<Executor, tokenIn>>] < amountIn
     \/ st.allowed[<<tokenIn, target>>] < amountIn
     \/ amountOut = 0 \/ amountOut < amountOutMin
  THEN Fail(st)
  ELSE [st EXCEPT
          !.ledger = Credit(Debit(@, Executor, tokenIn, amountIn), recipient, tokenOut, amountOut),
          !.allowed[<<tokenIn, target>>] = IF @ = MaxUint256 THEN @ ELSE @ - amountIn]

\* the wrapped-native token called by the executor: deposit() credits the value
\* sent as tokens, withdraw(amount) burns tokens and sends native currency back
WrappedNativeCall(st, wrapped, value, data) ==
  IF data = EncodeDeposit
  THEN [st EXCEPT !.ledger = Credit(Debit(@, Executor, Native, value), Executor, wrapped, value)]
  ELSE IF Len(data) = 4 + WordSize /\ SubSeq(data, 1, 4) = SelWithdraw /\ value = 0
  THEN LET amount == WordValue(WordAt(data, 4)) IN
       IF st.ledger[<<Executor, wrapped>>] < amount THEN Fail(st)
       ELSE [st EXCEPT !.ledger = Credit(Debit(@, Executor, wrapped, amount), Executor, Native, amount)]
  ELSE Fail(st)

\* _performCalls, one iteration: injection of the executor's whole balance of
\* injectToken, then the call
PerformCall(st, request, c) ==
  LET injects == c.injectToken # ZeroAddress
      injectedAmount == IF injects THEN st.ledger[<<Executor, c.injectToken>>] ELSE 0
  IN
  IF injects /\ injectedAmount = 0 THEN Fail(st)
  ELSE IF injects /\ ~OffsetInBounds(c.injectOffset, Len(c.data)) THEN Fail(st)
  ELSE
  LET data == IF injects THEN Inject(c.data, c.injectOffset, injectedAmount) ELSE c.data IN
  IF c.value > st.ledger[<<Executor, Native>>] THEN Fail(st)
  ELSE IF c.target \in Tokens /\ c.target = request.wrappedNativeAddress
  THEN WrappedNativeCall(st, c.target, c.value, data)
  ELSE IF c.target \in Routers /\ c.value = 0 THEN RouterSwap(st, request, c.target, data)
  ELSE Fail(st)

RECURSIVE PerformCalls(_, _, _, _)
PerformCalls(st, request, calls, i) ==
  IF ~st.ok \/ i > Len(calls) THEN st
  ELSE PerformCalls(PerformCall(st, request, calls[i]), request, calls, i + 1)

\* _pullTokens: safeTransferFrom(msg.sender, address(this), amount); the caller
\* has approved the executor for the input amount
RECURSIVE PullTokens(_, _, _, _)
PullTokens(st, caller, pulls, i) ==
  IF ~st.ok \/ i > Len(pulls) THEN st
  ELSE LET p == pulls[i] IN
       PullTokens(IF st.ledger[<<caller, p.token>>] < p.amount THEN Fail(st)
                  ELSE [st EXCEPT !.ledger = Credit(Debit(@, caller, p.token, p.amount),
                                                    Executor, p.token, p.amount)],
                  caller, pulls, i + 1)

\* _setApprovals: forceApprove(spender, amount), the last one for a pair stands
RECURSIVE SetApprovals(_, _, _)
SetApprovals(st, approvals, i) ==
  IF i > Len(approvals) THEN st
  ELSE SetApprovals([st EXCEPT !.allowed[<<approvals[i].token, approvals[i].spender>>] =
                                  approvals[i].amount],
                    approvals, i + 1)

\* _flushDeltas: what the executor holds above the snapshot goes to `recipient`
RECURSIVE FlushTokens(_, _, _, _, _)
FlushTokens(ledger, recipient, tokens, balancesBefore, i) ==
  IF i > Len(tokens) THEN ledger
  ELSE LET amount == FlushAmount(ledger[<<Executor, tokens[i]>>], balancesBefore[i]) IN
       FlushTokens(Credit(Debit(ledger, Executor, tokens[i], amount), recipient, tokens[i], amount),
                   recipient, tokens, balancesBefore, i + 1)

FlushDeltas(ledger, recipient, tokens, balancesBefore, ethBalanceBefore) ==
  LET flushed == FlushTokens(ledger, recipient, tokens, balancesBefore, 1)
      amount == FlushAmount(flushed[<<Executor, Native>>], ethBalanceBefore)
  IN Credit(Debit(flushed, Executor, Native, amount), recipient, Native, amount)

\* the caller, holding the quote's input, sends the built transaction: execute
SettlePlan(request, built, caller) ==
  LET plan == built.executor
      inputAsset == IF request.useNativeInput THEN Native ELSE request.quote.path[1]
      opening == [k \in Parties \X Assets |->
                    IF k = <<caller, inputAsset>> THEN request.quote.amountIn ELSE 0]
      ethBalanceBefore == opening[<<Executor, Native>>]
      tokenBalancesBefore ==
        [i \in 1..Len(plan.tokensToFlush) |-> opening[<<Executor, plan.tokensToFlush[i]>>]]
      entered ==
        [ok |-> opening[<<caller, Native>>] >= built.call.value,
         ledger |-> Credit(Debit(opening, caller, Native, built.call.value),
                           Executor, Native, built.call.value),
         allowed |-> [k \in Tokens \X Routers |-> 0]]
      pulled == PullTokens(entered, caller, plan.pulls, 1)
      called == PerformCalls(SetApprovals(pulled, plan.approvals, 1), request, plan.calls, 1)
  IN [ok |-> called.ok, caller |-> caller, opening |-> opening,
      closing |-> IF called.ok
                  THEN FlushDeltas(called.ledger, caller, plan.tokensToFlush,
                                   tokenBalancesBefore, ethBalanceBefore)
                  ELSE opening]

ExecutePlan ==
  /\ tx.ok /\ settled = NoSettlement
  /\ \E caller \in Users : settled' = SettlePlan(req, tx, caller)
  /\ UNCHANGED <<req, tx, again, chainVars, priceVars, calcVars>>

SettleNext ==
  \/ BuildSwap
  \/ ExecutePlan

SettleSpec == BuildInit /\ [][SettleNext]_execVars

Hops == 1..Len(req.quote.sources)

HopDex(i) == FindDex(req.dexes, req.quote.sources[i].dexId)[1]

\* the function the call of hop i invokes
HopFields(i) ==
  IF req.quote.hopVersions[i] = "v2" THEN V2SwapFields
  ELSE IF HopDex(i).protocol = "uniswap" THEN V3Router02ExactInputSingleFields
  ELSE V3ExactInputSingleFields

\* the executor call of hop i (hops counted from 1): after the wrap call, if any
HopCall(i) == tx.executor.calls[IF req.useNativeInput THEN i + 1 ELSE i]

HopAmountIn(i) == ArgOf(HopCall(i).data, HopFields(i), "amountIn")

HopMinOut(i) == ArgOf(HopCall(i).data, HopFields(i), "amountOutMin")

\* the amount available to hop i: the quote's input, then what the hop before is
\* expected to yield for the amount it consumes
RolledAmount(i) ==
  IF i = 1 THEN req.quote.amountIn
  ELSE (req.quote.sources[i - 1].amountOut * HopAmountIn(i - 1))
         \div req.quote.sources[i - 1].amountIn

\* C8: a built plan has one approval per hop, in hop order, of the hop's input
\* token to the router of the hop's venue; the first hop's approval is exactly the
\* input amount encoded in its call, every later one the largest 256-bit value
C8_ApprovalPerHop ==
  tx.ok =>
    /\ Len(tx.executor.approvals) = Len(req.quote.sources)
    /\ \A i \in Hops :
         LET a == tx.executor.approvals[i] IN
         /\ a.token = req.quote.path[i]
         /\ a.spender = HopDex(i).routerAddress
         /\ a.spender = HopCall(i).target
         /\ a.amount = IF i = 1 THEN HopAmountIn(1) ELSE MaxUint256

C8_Witness ==
  /\ tx.ok /\ Len(req.quote.sources) = 2
  /\ HopAmountIn(1) = 960
  /\ tx.executor.approvals[1].amount = 960
  /\ tx.executor.approvals[2].amount = MaxUint256
  /\ tx.executor.approvals[1].spender # tx.executor.approvals[2].spender

\* the 2-hop case where the second hop is quoted 500 but the first yields 480
ShortfallCase ==
  /\ tx.ok /\ Len(req.quote.sources) = 2
  /\ req.quote.sources[2].amountIn = 500
  /\ RolledAmount(2) = 480

\* C9 as stated: every hop consumes min(quoted hop input, available amount); in
\* the 480-of-500 case hop 2 consumes 480 and its call names a token to inject
C9_ConsumesMinOfQuotedAndAvailable ==
  tx.ok =>
    /\ \A i \in Hops :
         HopAmountIn(i) = Min(req.quote.sources[i].amountIn, RolledAmount(i))
    /\ ShortfallCase =>
         HopAmountIn(2) = 480 /\ HopCall(2).injectToken # ZeroAddress

\* min(quoted, available) less the inter-hop buffer, which hops after the first
\* give up when it is positive and smaller than the amount
LessBuffer(i, amount) ==
  LET buffer == (amount * req.interhopBufferBps) \div BpsDenominator IN
  IF i > 1 /\ buffer > 0 /\ buffer < amount THEN amount - buffer ELSE amount

\* C9: the first hop consumes min(quoted hop input, available amount) and every
\* later hop that minimum less the inter-hop buffer, whenever the buffer is
\* positive and smaller than the minimum; in the 480-of-500 case hop 2 consumes
\* 480 less that buffer, never 500, and its call names a token to inject
C9_ConsumesMinLessBuffer ==
  tx.ok =>
    /\ \A i \in Hops :
         /\ HopAmountIn(i) =
              LessBuffer(i, Min(req.quote.sources[i].amountIn, RolledAmount(i)))
         /\ HopAmountIn(i) <= RolledAmount(i)
    /\ ShortfallCase =>
         /\ HopAmountIn(2) = LessBuffer(2, 480)
         /\ HopAmountIn(2) \in {480, 480 - ((480 * req.interhopBufferBps) \div BpsDenominator)}
         /\ HopCall(2).injectToken # ZeroAddress

C9_Witness ==
  /\ ShortfallCase
  /\ req.interhopBufferBps = 3
  /\ HopAmountIn(2) = 480
  /\ HopCall(2).injectToken = req.quote.path[2]

\* C10 as stated: the last hop's encoded minimum is the overall minimum, every
\* other hop's is floor(quoted hop output * overall minimum / quoted total output)
C10_HopMinOutFromQuotedOutput ==
  tx.ok =>
    \A i \in Hops :
      HopMinOut(i) =
        IF i = Len(req.quote.sources) THEN tx.amountOutMinimum
        ELSE (req.quote.sources[i].amountOut * tx.amountOutMinimum)
               \div req.quote.amountOut

\* C10: the last hop's encoded minimum is the overall minimum, every other hop's
\* is floor(hop output * overall minimum / quoted total output), where the hop
\* output is the quoted one scaled to the amount the hop consumes
C10_HopMinOutFromScaledOutput ==
  tx.ok =>
    \A i \in Hops :
      HopMinOut(i) =
        IF i = Len(req.quote.sources) THEN tx.amountOutMinimum
        ELSE (RolledAmount(i + 1) * tx.amountOutMinimum) \div req.quote.amountOut

C10_Witness ==
  /\ tx.ok /\ Len(req.quote.sources) = 2
  /\ HopAmountIn(1) < req.quote.sources[1].amountIn
  /\ HopAmountIn(2) < req.quote.sources[2].amountIn
  /\ HopMinOut(1) > 0
  /\ HopMinOut(2) = tx.amountOutMinimum
  /\ tx.amountOutMinimum < req.quote.amountOut

\* amounts the executor may find as its live balance at dispatch
ProbeAmounts == {1, 777}

\* the payload the executor dispatches for call c when its live balance is v
Dispatched(c, v) == Inject(c.data, c.injectOffset, v)

\* C11: the call of hop 0 names no token to inject; the call of every later hop
\* names the hop's input token and the byte position of the input-amount word of
\* its function (4, 132 without a deadline field, 164 with one), inside the
\* payload, so that injection rewrites the input amount and no other argument
C11_InjectionOnInputAmount ==
  tx.ok =>
    \A i \in Hops :
      LET c == HopCall(i)
          fields == HopFields(i)
      IN IF i = 1 THEN c.injectToken = ZeroAddress
         ELSE /\ c.injectToken = req.quote.path[i]
              /\ c.injectOffset = FieldOffset(fields, "amountIn")
              /\ c.injectOffset =
                   IF fields = V2SwapFields THEN 4
                   ELSE IF fields = V3Router02ExactInputSingleFields THEN 132
                   ELSE 164
              /\ c.injectOffset + WordSize <= Len(c.data)
              /\ OffsetInBounds(c.injectOffset, Len(c.data))
              /\ \A v \in ProbeAmounts :
                   /\ Len(Dispatched(c, v)) = Len(c.data)
                   /\ \A k \in 1..Len(fields) :
                        ArgOf(Dispatched(c, v), fields, fields[k]) =
                          IF fields[k] = "amountIn" THEN v
                          ELSE ArgOf(c.data, fields, fields[k])

C11_Witness ==
  /\ tx.ok /\ Len(req.quote.sources) = 2
  /\ HopFields(2) = V3Router02ExactInputSingleFields
  /\ HopCall(1).injectToken = ZeroAddress
  /\ HopCall(2).injectToken = req.quote.path[2]
  /\ HopCall(2).injectOffset = 132
  /\ ArgOf(Dispatched(HopCall(2), 777), HopFields(2), "amountIn") = 777

\* the recipient argument of the call of hop i, as the number it is encoded as
HopRecipientNum(i) ==
  ArgOf(HopCall(i).data, HopFields(i),
        IF HopFields(i) = V2SwapFields THEN "to" ELSE "recipient")

PulledTokens == {tx.executor.pulls[k].token : k \in 1..Len(tx.executor.pulls)}

ApprovedTokens == {tx.executor.approvals[k].token : k \in 1..Len(tx.executor.approvals)}

\* output tokens of the hops whose call pays the executor
CustodyTokens == {req.quote.path[i + 1] : i \in {h \in Hops : HopRecipientNum(h) = AddrNum(Executor)}}

\* C12: tokensToFlush of a built plan holds every pulled token, every approved
\* token and the output token of every hop that pays the executor, with native
\* input or output as well as without
C12_FlushCoversCustody ==
  tx.ok =>
    /\ PulledTokens \subseteq Range(tx.executor.tokensToFlush)
    /\ ApprovedTokens \subseteq Range(tx.executor.tokensToFlush)
    /\ CustodyTokens \subseteq Range(tx.executor.tokensToFlush)

C12_Witness ==
  /\ tx.ok /\ Len(req.quote.sources) = 2
  /\ req.useNativeOutput
  /\ CustodyTokens = {req.quote.path[2], WNative}
  /\ Len(tx.executor.tokensToFlush) = Len(req.quote.path)

\* build has been called
Built == tx # NoTx

NoSources == Len(req.quote.sources) = 0

UnknownVenue ==
  \E i \in Hops :
    \A k \in 1..Len(req.dexes) : req.dexes[k].id # req.quote.sources[i].dexId

MissingFeeTier ==
  \E i \in Hops : req.quote.hopVersions[i] = "v3" /\ req.quote.sources[i].feeTier = <<>>

\* the amount that rolls into hop i, computed from the request alone
RECURSIVE AvailableBefore(_)
AvailableBefore(i) ==
  IF i = 1 THEN req.quote.amountIn
  ELSE LET s == req.quote.sources[i - 1]
           used == LessBuffer(i - 1, Min(s.amountIn, AvailableBefore(i - 1)))
       IN IF s.amountIn <= 0 THEN 0 ELSE (s.amountOut * used) \div s.amountIn

RollingAmountExhausted == \E i \in Hops : AvailableBefore(i) <= 0

\* C13: build throws, and so returns no pulls, approvals or calls at all, when
\* the quote has no sources, a source's venue is not configured for the chain,
\* a v3 hop has no fee tier, or the rolling amount is zero before some hop
C13_FailsWithoutPlan ==
  (Built /\ (NoSources \/ UnknownVenue \/ MissingFeeTier \/ RollingAmountExhausted)) =>
    /\ ~tx.ok
    /\ tx.error # ""
    /\ DOMAIN tx = {"ok", "error"}

C13_Witness ==
  /\ Built /\ Len(req.quote.sources) = 2
  /\ ~UnknownVenue /\ ~MissingFeeTier
  /\ AvailableBefore(1) > 0 /\ AvailableBefore(2) = 0
  /\ tx = BuildError("Insufficient rolling amount for executor construction")

\* what hop i would take before the buffer: min(quoted hop input, available)
PlannedAmount(i) == Min(req.quote.sources[i].amountIn, AvailableBefore(i))

\* floor(amount * bufferBps / 10000) for the planned amount of hop i
BufferOf(i) ==
  (PlannedAmount(i) * BufferBpsOf(req.interhopBufferBps)) \div BpsDenominator

NonPositiveAfterBuffer ==
  tx = BuildError("Computed hop amountIn is non-positive after buffer adjustment")

\* C28 as stated: every hop after the first is reduced by
\* floor(amount * bufferBps / 10000), which is less than the amount
C28_ReducedByBufferAlways ==
  tx.ok =>
    \A i \in Hops :
      /\ HopAmountIn(i) = IF i = 1 THEN PlannedAmount(i) ELSE PlannedAmount(i) - BufferOf(i)
      /\ (i > 1 => BufferOf(i) < PlannedAmount(i))

\* C28: hop 0 is never buffered; every later hop is reduced by
\* floor(amount * bufferBps / 10000) when that is less than the amount and is
\* not reduced at all otherwise, so every hop amount encoded in a plan is at
\* least 1 and at most min(quoted hop input, available amount), and the
\* 'non-positive after buffer adjustment' error is never raised
C28_BufferKeepsHopAmountPositive ==
  /\ ~NonPositiveAfterBuffer
  /\ tx.ok =>
       \A i \in Hops :
         /\ HopAmountIn(i) =
              IF i > 1 /\ BufferOf(i) < PlannedAmount(i)
              THEN PlannedAmount(i) - BufferOf(i) ELSE PlannedAmount(i)
         /\ HopAmountIn(i) >= 1
         /\ HopAmountIn(i) <= PlannedAmount(i)

\* a buffer of a quarter is taken off the second hop
C28_Witness ==
  /\ tx.ok /\ Len(req.quote.sources) = 2
  /\ BufferBpsOf(req.interhopBufferBps) = 2500
  /\ HopAmountIn(1) = PlannedAmount(1)
  /\ BufferOf(2) > 0 /\ HopAmountIn(2) = PlannedAmount(2) - BufferOf(2)

\* a buffer of the whole amount or more is not taken at all
C28_FullBufferWitness ==
  /\ tx.ok /\ Len(req.quote.sources) = 2
  /\ BufferOf(2) >= PlannedAmount(2)
  /\ HopAmountIn(2) = PlannedAmount(2)

\* ------------------------------------------------------------------------
\* Quote math (quote-math.ts), amounts and Q18 prices scaled down
\* ------------------------------------------------------------------------
\* one in Q18 fixed point
Q18 == 100

PriceImpactCap == 10000000

RECURSIVE Pow10(_)
Pow10(value) == IF value <= 0 THEN 1 ELSE 10 * Pow10(value - 1)

ApplyPriceQ18(priceQ18, amountIn, inDecimals, outDecimals) ==
  IF priceQ18 = 0 \/ amountIn = 0 THEN 0
  ELSE LET numerator == amountIn * priceQ18 * Pow10(outDecimals)
           denominator == Q18 * Pow10(inDecimals)
       IN IF denominator = 0 THEN 0 ELSE numerator \div denominator

ImpactUncapped(impact) == impact

CapImpact(impact) == IF impact > PriceImpactCap THEN PriceImpactCap ELSE impact

ComputePriceImpactBps(midPriceQ18, amountIn, amountOut, inDecimals, outDecimals) ==
  IF midPriceQ18 = 0 \/ amountIn = 0 \/ amountOut = 0 THEN 0
  ELSE LET expectedOut == ApplyPriceQ18(midPriceQ18, amountIn, inDecimals, outDecimals)
           diff == IF expectedOut > amountOut THEN expectedOut - amountOut
                   ELSE amountOut - expectedOut
       IN IF expectedOut = 0 THEN 0
          ELSE IF diff = 0 THEN 0
          ELSE CapImpact((diff * 10000) \div expectedOut)

EstimateAmountOutFromMidPrice(midPriceQ18, amountIn, inDecimals, outDecimals, fee) ==
  IF midPriceQ18 = 0 \/ amountIn = 0 THEN 0
  ELSE ApplyPriceQ18(midPriceQ18, amountIn - ((amountIn * fee) \div 1000000),
                     inDecimals, outDecimals)

\* utils/math multiplyQ18: the product of two Q18 numbers, in Q18
MultiplyQ18(a, b) == (a * b) \div Q18

CompareQuotesTieAsEqual(a, b) ==
  IF a.amountOut = b.amountOut
  THEN IF a.liquidityScore = b.liquidityScore
       THEN IF a.priceImpactBps = b.priceImpactBps THEN 0
            ELSE IF a.priceImpactBps < b.priceImpactBps THEN -1 ELSE 1
       ELSE IF a.liquidityScore > b.liquidityScore THEN -1 ELSE 1
  ELSE IF a.amountOut > b.amountOut THEN -1 ELSE 1

CompareQuotesByOutputOnly(a, b) == IF a.amountOut >= b.amountOut THEN -1 ELSE 1

CompareQuotes(a, b) ==
  IF a.amountOut = b.amountOut
  THEN IF a.liquidityScore = b.liquidityScore
       THEN IF a.priceImpactBps <= b.priceImpactBps THEN -1 ELSE 1
       ELSE IF a.liquidityScore > b.liquidityScore THEN -1 ELSE 1
  ELSE IF a.amountOut > b.amountOut THEN -1 ELSE 1

\* rearrangements of a list
Rearrangements(seq) ==
  {[k \in 1..Len(seq) |-> seq[f[k]]] :
     f \in {g \in [1..Len(seq) -> 1..Len(seq)] :
              \A j, k \in 1..Len(seq) : j # k => g[j] # g[k]}}

\* quotes.sort(compareQuotes): a rearrangement in which the comparator puts every
\* element before each later one; where the comparator answers -1 both ways the
\* engine may leave either order
SortOutcomes(quotes) ==
  {p \in Rearrangements(quotes) :
     \A j, k \in 1..Len(p) : j < k => CompareQuotes(p[j], p[k]) = -1}

\* selectBestQuote: null (no quote) for an empty list, else the head of the
\* sorted list
SelectBestQuote(quotes) ==
  IF Len(quotes) = 0 THEN {NoQuote} ELSE {p[1] : p \in SortOutcomes(quotes)}

\* ------------------------------------------------------------------------
\* PoolDiscovery and PriceService.getBestQuoteForTokens
\* ------------------------------------------------------------------------
\* MIN_V2_RESERVE_THRESHOLD (10^12 in the code) and MIN_V3_LIQUIDITY_THRESHOLD
MinV2ReserveThreshold == 10
MinV3LiquidityThreshold == 0

\* token decimals, as the metadata cache reports them
Decimals(token) == IF token = TokB THEN 0 ELSE 1

\* INTERMEDIATE_TOKEN_ADDRESSES of the chain
IntermediateTokens == <<TokA, WNative>>

\* the pools fetchDirectQuotes asks the factories for: one per v2 venue, one per
\* fee tier of a v3 venue
PoolSlots ==
  <<[dex |-> ChainDexes[1], fee |-> <<>>], [dex |-> ChainDexes[2], fee |-> <<500>>]>>

\* what the chain answers about one pool
PoolAnswer(factory, reads, snapshot, sim, amountOut, liquidityScore, midPriceQ18) ==
  [factory |-> factory, reads |-> reads, snapshot |-> snapshot, sim |-> sim,
   amountOut |-> amountOut, liquidityScore |-> liquidityScore,
   midPriceQ18 |-> midPriceQ18]

\* the state read from a pool: the reserves of a v2 pair, the liquidity of a v3
\* pool
Snapshot(reserveIn, reserveOut, liquidity) ==
  [reserveIn |-> reserveIn, reserveOut |-> reserveOut, liquidity |-> liquidity]

FailedAnswers ==
  LET deep == Snapshot(MinV2ReserveThreshold, MinV2ReserveThreshold, 1) IN
  {PoolAnswer("failed", "ok", deep, "ok", 0, 0, 0),
   PoolAnswer("none", "ok", deep, "ok", 0, 0, 0),
   PoolAnswer("found", "failed", deep, "ok", 0, 0, 0),
   PoolAnswer("found", "ok", deep, "failed", 0, 1, 60)}

\* a v2 pair with one reserve below the threshold
DustPairAnswers ==
  {PoolAnswer("found", "ok",
              Snapshot(MinV2ReserveThreshold - 1, MinV2ReserveThreshold + 1, 0),
              "ok", 50, 1, 60),
   PoolAnswer("found", "ok",
              Snapshot(MinV2ReserveThreshold + 1, MinV2ReserveThreshold - 1, 0),
              "ok", 50, 1, 60)}

\* simulated output, liquidity score and mid-price of a pool
ValueChoices ==
  {<<0, 1, 60>>, <<50, 2, 60>>, <<50, 1, 60>>, <<40, 2, 60>>, <<50, 2, 0>>, <<40, 1, 0>>}

SimulatedAnswers ==
  {PoolAnswer("found", "ok",
              Snapshot(MinV2ReserveThreshold, MinV2ReserveThreshold + v[2], v[2]),
              "ok", v[1], v[2], v[3]) : v \in ValueChoices}

\* a v3 pool built without tick data
UntickedAnswers ==
  {PoolAnswer("found", "ok", Snapshot(0, 0, v[1]), "noTickData", 0, v[1], v[2]) :
     v \in {<<2, 60>>, <<1, 0>>, <<0, 60>>}}

PoolAnswers(slot) ==
  IF slot.dex.version = "v2" THEN FailedAnswers \cup DustPairAnswers \cup SimulatedAnswers
  ELSE FailedAnswers \cup SimulatedAnswers \cup UntickedAnswers

AnswerChoices ==
  {a \in [1..Len(PoolSlots) ->
             FailedAnswers \cup DustPairAnswers \cup SimulatedAnswers \cup UntickedAnswers] :
     \A k \in 1..Len(PoolSlots) : a[k] \in PoolAnswers(PoolSlots[k])}

DirectQuote(slot, tokenIn, tokenOut, amountIn, amountOut, approximate, impact, answer) ==
  [amountIn |-> amountIn, amountOut |-> amountOut,
   midPriceQ18 |-> answer.midPriceQ18, priceImpactBps |-> impact,
   liquidityScore |-> answer.liquidityScore,
   path |-> <<tokenIn, tokenOut>>,
   sources |-> <<[dexId |-> slot.dex.id, feeTier |-> slot.fee,
                  approximate |-> approximate, amountIn |-> amountIn,
                  amountOut |-> amountOut, pool |-> answer.snapshot]>>,
   hopVersions |-> <<slot.dex.version>>, offers |-> <<>>]

\* snapshot.reserveIn < MIN_V2_RESERVE_THRESHOLD || snapshot.reserveOut < ...
BelowReserveThreshold(snapshot) ==
  snapshot.reserveIn < MinV2ReserveThreshold \/ snapshot.reserveOut < MinV2ReserveThreshold

\* snapshot.liquidity < MIN_V3_LIQUIDITY_THRESHOLD
BelowLiquidityThreshold(snapshot) == snapshot.liquidity < MinV3LiquidityThreshold

PoolRejected(slot, snapshot) ==
  IF slot.dex.version = "v2" THEN BelowReserveThreshold(snapshot)
  ELSE BelowLiquidityThreshold(snapshot)

\* computeV2Quote: <<>> for null, else the quote
ComputeV2Quote(slot, tokenIn, tokenOut, amountIn, answer) ==
  IF BelowReserveThreshold(answer.snapshot) \/ answer.sim # "ok" \/ answer.amountOut <= 0
  THEN <<>>
  ELSE <<DirectQuote(slot, tokenIn, tokenOut, amountIn, answer.amountOut, FALSE,
                     ComputePriceImpactBps(answer.midPriceQ18, amountIn, answer.amountOut,
                                           Decimals(tokenIn), Decimals(tokenOut)),
                     answer)>>

\* computeV3Quote: <<>> for null, else the quote
ComputeV3Quote(slot, tokenIn, tokenOut, amountIn, answer) ==
  LET approximate == answer.sim = "noTickData"
      amountOutRaw ==
        IF approximate
        THEN EstimateAmountOutFromMidPrice(answer.midPriceQ18, amountIn, Decimals(tokenIn),
                                           Decimals(tokenOut), slot.fee[1])
        ELSE answer.amountOut
  IN IF BelowLiquidityThreshold(answer.snapshot) \/ answer.sim = "failed" THEN <<>>
     ELSE IF approximate /\ answer.midPriceQ18 = 0 THEN <<>>
     ELSE IF amountOutRaw <= 0 THEN <<>>
     ELSE IF answer.midPriceQ18 = 0 THEN <<>>
     ELSE <<DirectQuote(slot, tokenIn, tokenOut, amountIn, amountOutRaw, approximate,
                        IF approximate THEN 0
                        ELSE ComputePriceImpactBps(answer.midPriceQ18, amountIn,
                                                   amountOutRaw, Decimals(tokenIn),
                                                   Decimals(tokenOut)),
                        [answer EXCEPT !.liquidityScore = answer.snapshot.liquidity])>>

\* the quote, if any, that one pool contributes
PoolQuote(slot, tokenIn, tokenOut, amountIn, answer) ==
  IF answer.factory # "found" \/ answer.reads # "ok" THEN <<>>
  ELSE IF slot.dex.version = "v2"
  THEN ComputeV2Quote(slot, tokenIn, tokenOut, amountIn, answer)
  ELSE ComputeV3Quote(slot, tokenIn, tokenOut, amountIn, answer)

\* fetchDirectQuotes: the quotes of the pools, in the order of the venues
FetchDirectQuotes(tokenIn, tokenOut, amountIn, answers) ==
  Concat([k \in 1..Len(PoolSlots) |->
            PoolQuote(PoolSlots[k], tokenIn, tokenOut, amountIn, answers[k])])

\* kinds of reads that failed among the answers
FailedKinds(answers) ==
  {kind \in {"factory", "poolState", "simulation"} :
     \E k \in 1..Len(answers) :
       \/ kind = "factory" /\ answers[k].factory = "failed"
       \/ kind = "poolState" /\ answers[k].factory = "found" /\ answers[k].reads = "failed"
       \/ kind = "simulation" /\ answers[k].factory = "found" /\ answers[k].reads = "ok"
            /\ ~PoolRejected(PoolSlots[k], answers[k].snapshot)
            /\ answers[k].sim = "failed"}

\* the 2-hop quote fetchMultiHopQuotes builds of two legs
TwoHopQuote(tokenIn, tokenOut, amountIn, a, b) ==
  LET midPriceQ18 == MultiplyQ18(a.midPriceQ18, b.midPriceQ18) IN
  [amountIn |-> amountIn, amountOut |-> b.amountOut,
   midPriceQ18 |-> midPriceQ18,
   priceImpactBps |-> ComputePriceImpactBps(midPriceQ18, amountIn, b.amountOut,
                                            Decimals(tokenIn), Decimals(tokenOut)),
   liquidityScore |-> Min(a.liquidityScore, b.liquidityScore),
   path |-> <<tokenIn, a.path[2], tokenOut>>,
   sources |-> a.sources \o b.sources,
   hopVersions |-> a.hopVersions \o b.hopVersions, offers |-> <<>>]

AmountChoicesForQuote == {0, 100}

\* getBestQuoteForTokens(chain, tokenIn, tokenOut, amountIn) is called
GetBestQuote ==
  /\ ppc = "idle" /\ quoted = NoQuote
  /\ \E amountIn \in AmountChoicesForQuote :
       /\ ask' = [tokenIn |-> TokA, tokenOut |-> TokB, amountIn |-> amountIn]
       /\ IF amountIn <= 0
          THEN ppc' = "done" /\ quoted' = [kind |-> "null"] /\ pending' = <<>>
          ELSE ppc' = "direct" /\ quoted' = quoted /\ pending' = IntermediateTokens
  /\ UNCHANGED <<legA, candidates, failedReads, chainVars, buildVars, calcVars>>

\* fetchDirectQuotes for the pair itself
FetchDirect ==
  /\ ppc = "direct"
  /\ \E answers \in AnswerChoices :
       /\ candidates' = FetchDirectQuotes(ask.tokenIn, ask.tokenOut, ask.amountIn, answers)
       /\ failedReads' = failedReads \cup FailedKinds(answers)
  /\ ppc' = "multi"
  /\ UNCHANGED <<ask, pending, legA, quoted, chainVars, buildVars, calcVars>>

\* fetchMultiHopQuotes: the head of the loop over the intermediate tokens
NextIntermediate ==
  /\ ppc = "multi"
  /\ IF pending = <<>> THEN ppc' = "select" /\ pending' = pending
     ELSE IF Head(pending) \in {ask.tokenIn, ask.tokenOut}
     THEN ppc' = "multi" /\ pending' = Tail(pending)
     ELSE ppc' = "meta" /\ pending' = pending
  /\ UNCHANGED <<ask, legA, candidates, quoted, failedReads, chainVars, buildVars,
                 calcVars>>

\* loadIntermediate: the metadata from the cache or from the chain;
\* getTokenMetadata throws when the decimals read fails
LoadIntermediate ==
  /\ ppc = "meta"
  /\ \E answer \in {"cached", "fetched", "decimalsFailed"} :
       IF answer = "decimalsFailed"
       THEN /\ ppc' = "done" /\ quoted' = [kind |-> "error"]
            /\ failedReads' = failedReads \cup {"metadata"}
       ELSE /\ ppc' = "legA" /\ quoted' = quoted /\ failedReads' = failedReads
  /\ UNCHANGED <<ask, pending, legA, candidates, chainVars, buildVars, calcVars>>

\* the first leg: the best direct quote from the input token to the intermediate
FetchLegA ==
  /\ ppc = "legA"
  /\ \E answers \in AnswerChoices :
       /\ failedReads' = failedReads \cup FailedKinds(answers)
       /\ \E best \in SelectBestQuote(
                        FetchDirectQuotes(ask.tokenIn, Head(pending), ask.amountIn, answers)) :
            IF best = NoQuote
            THEN ppc' = "multi" /\ pending' = Tail(pending) /\ legA' = legA
            ELSE ppc' = "legB" /\ pending' = pending /\ legA' = best
  /\ UNCHANGED <<ask, candidates, quoted, chainVars, buildVars, calcVars>>

SecondLegInputIsRequestAmount(firstLeg, amountIn) == amountIn

\* the amount the second leg is quoted for: the first leg's realized output
SecondLegInput(firstLeg, amountIn) == firstLeg.amountOut

\* the second leg, fed the first leg's output, and the 2-hop quote of the two
FetchLegB ==
  /\ ppc = "legB"
  /\ \E answers \in AnswerChoices :
       /\ failedReads' = failedReads \cup FailedKinds(answers)
       /\ \E best \in SelectBestQuote(
                        FetchDirectQuotes(Head(pending), ask.tokenOut,
                                          SecondLegInput(legA, ask.amountIn), answers)) :
            candidates' =
              IF best = NoQuote THEN candidates
              ELSE Append(candidates,
                          TwoHopQuote(ask.tokenIn, ask.tokenOut, ask.amountIn, legA, best))
  /\ ppc' = "multi" /\ pending' = Tail(pending) /\ legA' = NoQuote
  /\ UNCHANGED <<ask, quoted, chainVars, buildVars, calcVars>>

\* the end of getBestQuoteForTokens: the best candidate, the others as its offers
SelectBest ==
  /\ ppc = "select"
  /\ \E best \in SelectBestQuote(candidates) :
       IF best = NoQuote THEN quoted' = [kind |-> "null"]
       ELSE \E remaining \in
              SortOutcomes(SelectSeq(candidates, LAMBDA quote : quote # best)) :
              quoted' = [kind |-> "quote", best |-> [best EXCEPT !.offers = remaining]]
  /\ ppc' = "done"
  /\ UNCHANGED <<ask, pending, legA, candidates, failedReads, chainVars, buildVars,
                 calcVars>>

PriceInit == ExecInit /\ bal[TokA][Executor] = 0

PriceNext ==
  \/ GetBestQuote
  \/ FetchDirect
  \/ NextIntermediate
  \/ LoadIntermediate
  \/ FetchLegA
  \/ FetchLegB
  \/ SelectBest

PriceSpec == PriceInit /\ [][PriceNext]_execVars

\* ------------------------------------------------------------------------
\* The slippage and price-impact computations, applied to chosen inputs
\* ------------------------------------------------------------------------
\* a JavaScript number handed in as the slippage: not finite (NaN, Infinity), or
\* a value given in tenths of a basis point
NotFinite == [finite |-> FALSE, tenths |-> 0]

Finite(tenths) == [finite |-> TRUE, tenths |-> tenths]

\* utils/trading clampSlippage: 0 for a non-finite or negative number, 5000
\* above 5000, else Math.floor
TradingClampSlippage(value) ==
  IF ~value.finite \/ value.tenths < 0 THEN 0
  ELSE IF value.tenths > 5000 * 10 THEN 5000
  ELSE value.tenths \div 10

\* QuoteService.getQuote: the minimum output of the quote
QuoteAmountOutMin(amountOut, boundedSlippage) ==
  LET slippageAmount == (amountOut * boundedSlippage) \div 10000 IN
  IF amountOut > slippageAmount THEN amountOut - slippageAmount ELSE 0

SlippageNumbers == {NotFinite} \cup {Finite(t) : t \in {-10, 0, 5, 500, 505, 3330, 50000, 50001}}

SlippageInts == {-1, 0, 50, 333, 5000, 6000}

OutputChoices == {1, 199, 200, 900, 1000, 1001}

MidPriceChoices == {0, 1, 100, 1000}

InputChoices == {0, 1, 10, 100}

ImpactOutputChoices == {0, 1, 10, 1002, 20000}

DecimalChoices == {0, 1, 2}

\* getQuote computes amountOutMin for the quote it was given
CalcGetQuote ==
  /\ calc = NoCalc
  /\ \E amountOut \in OutputChoices, slippageBps \in SlippageNumbers :
       calc' = [fn |-> "getQuote", amountOut |-> amountOut,
                boundedSlippage |-> TradingClampSlippage(slippageBps),
                amountOutMin |->
                  QuoteAmountOutMin(amountOut, TradingClampSlippage(slippageBps))]
  /\ UNCHANGED <<chainVars, buildVars, priceVars, cacheVars>>

\* SwapBuilder.build computes the minimum output when the request carries none
CalcApplySlippage ==
  /\ calc = NoCalc
  /\ \E amountOut \in OutputChoices \cup {0}, slippageBps \in SlippageInts :
       calc' = [fn |-> "applySlippage", amountOut |-> amountOut,
                boundedSlippage |-> ClampSlippage(slippageBps),
                amountOutMin |-> ApplySlippage(amountOut, ClampSlippage(slippageBps))]
  /\ UNCHANGED <<chainVars, buildVars, priceVars, cacheVars>>

\* computePriceImpactBps is applied
CalcPriceImpact ==
  /\ calc = NoCalc
  /\ \E midPriceQ18 \in MidPriceChoices, amountIn \in InputChoices,
        amountOut \in ImpactOutputChoices, inDecimals \in DecimalChoices,
        outDecimals \in {0, 1} :
       calc' = [fn |-> "computePriceImpactBps", midPriceQ18 |-> midPriceQ18,
                amountIn |-> amountIn, amountOut |-> amountOut,
                expectedOut |-> ApplyPriceQ18(midPriceQ18, amountIn, inDecimals,
                                              outDecimals),
                priceImpactBps |->
                  ComputePriceImpactBps(midPriceQ18, amountIn, amountOut, inDecimals,
                                        outDecimals)]
  /\ UNCHANGED <<chainVars, buildVars, priceVars, cacheVars>>

CalcInit == ExecInit /\ bal[TokA][Executor] = 0

CalcNext ==
  \/ CalcGetQuote
  \/ CalcApplySlippage
  \/ CalcPriceImpact

CalcSpec == CalcInit /\ [][CalcNext]_execVars

\* ------------------------------------------------------------------------
\* The pair-address caches: operations
\* ------------------------------------------------------------------------
\* getCachedV2Pair / getCachedV3Pool: the entry under (A, B), or else the one
\* under (B, A); its address if it is younger than the TTL, else null
GetCached(entries, now, kind, tokenA, tokenB) ==
  LET direct == entries[CacheKey(kind, tokenA, tokenB)]
      cached == IF direct # NoEntry THEN direct ELSE entries[CacheKey(kind, tokenB, tokenA)]
  IN IF cached # NoEntry /\ now - cached.timestamp < PoolCacheTtl
     THEN cached.address ELSE "null"

\* setCachedV2Pair / setCachedV3Pool
SetCached(entries, now, kind, tokenA, tokenB, address) ==
  [entries EXCEPT ![CacheKey(kind, tokenA, tokenB)] =
                    [address |-> address, timestamp |-> now]]

\* the pairs of two different tokens, as spelled by a caller
TokenPairs == {p \in Spellings \X Spellings : ToLowerCase(p[1]) # ToLowerCase(p[2])}

SetCachedPair ==
  /\ \E kind \in CacheKinds, p \in TokenPairs, address \in PairAddresses :
       cache' = SetCached(cache, clock, kind, p[1], p[2], address)
  /\ lookup' = NoLookup
  /\ UNCHANGED <<clock, calc, chainVars, buildVars, priceVars>>

GetCachedPair ==
  /\ \E kind \in CacheKinds, p \in TokenPairs :
       lookup' = [kind |-> kind, tokenA |-> p[1], tokenB |-> p[2],
                  result |-> GetCached(cache, clock, kind, p[1], p[2])]
  /\ UNCHANGED <<cache, clock, calc, chainVars, buildVars, priceVars>>

\* time passes
Tick ==
  /\ clock < MaxClock
  /\ clock' = clock + 1 /\ lookup' = NoLookup
  /\ UNCHANGED <<cache, calc, chainVars, buildVars, priceVars>>

CacheInit == ExecInit /\ bal[TokA][Executor] = 0

CacheNext ==
  \/ SetCachedPair
  \/ GetCachedPair
  \/ Tick

CacheSpec == CacheInit /\ [][CacheNext]_execVars

\* ------------------------------------------------------------------------
\* Properties of the price service
\* ------------------------------------------------------------------------
\* the quotes compareQuotes is applied to during a call
QuotesSeen == Range(candidates) \cup (IF legA = NoQuote THEN {} ELSE {legA})

\* C14: for any two distinct quotes compareQuotes(a, b) = -compareQuotes(b, a),
\* also when they agree on amountOut, liquidityScore and priceImpactBps, and the
\* order is transitive over three quotes with distinct amountOut
C14_CompareIsStrictTotalOrder ==
  /\ \A a, b \in QuotesSeen :
       a # b => CompareQuotes(a, b) = 0 - CompareQuotes(b, a)
  /\ \A a, b, c \in QuotesSeen :
       (/\ a.amountOut # b.amountOut /\ b.amountOut # c.amountOut
        /\ a.amountOut # c.amountOut
        /\ CompareQuotes(a, b) = -1 /\ CompareQuotes(b, c) = -1)
         => CompareQuotes(a, c) = -1

\* quote a is strictly better than quote b: higher amountOut, then higher
\* liquidityScore, then lower priceImpactBps
StrictlyBetter(a, b) ==
  \/ a.amountOut > b.amountOut
  \/ a.amountOut = b.amountOut /\ a.liquidityScore > b.liquidityScore
  \/ /\ a.amountOut = b.amountOut /\ a.liquidityScore = b.liquidityScore
     /\ a.priceImpactBps < b.priceImpactBps

\* the number of positions of a list that hold the quote
Occurrences(quotes, quote) == Cardinality({k \in 1..Len(quotes) : quotes[k] = quote})

\* the call has returned a value (a quote or null)
Returned == ppc = "done" /\ quoted.kind \in {"quote", "null"} /\ ask.amountIn > 0

C15_EmptyWitness == Returned /\ candidates = <<>> /\ quoted.kind = "null"

\* C19: a failed read during discovery (factory lookup, pool state, output
\* simulation, metadata of an intermediate token) only drops candidates:
\* getBestQuoteForTokens ends with the best remaining candidate or with null,
\* never with an error
C19_FailedReadOnlyDropsCandidates ==
  (ppc = "done" /\ failedReads # {}) =>
    /\ quoted.kind \in {"quote", "null"}
    /\ quoted.kind = "null" <=> candidates = <<>>

\* failed factory, pool-state and simulation reads alone never end the call
\* with an error
PoolReadFailuresAreSwallowed ==
  (ppc = "done" /\ "metadata" \notin failedReads) =>
    /\ quoted.kind \in {"quote", "null"}
    /\ (ask.amountIn > 0) => (quoted.kind = "null" <=> candidates = <<>>)

\* a call that ended with a quote although reads of all three pool kinds failed
PoolReadFailuresWitness ==
  /\ ppc = "done" /\ quoted.kind = "quote"
  /\ failedReads = {"factory", "poolState", "simulation"}

\* the decimals read of the intermediate token failed after a direct quote had
\* been found, and the call ended with an error
MetadataFailureSurfaces ==
  /\ ppc = "done" /\ quoted.kind = "error" /\ failedReads = {"metadata"}
  /\ candidates # <<>>

\* the quotes discovery has produced: the candidates, and the returned quote
\* with its offers
QuotesProduced ==
  Range(candidates)
    \cup (IF quoted.kind = "quote"
          THEN {quoted.best} \cup Range(quoted.best.offers) ELSE {})

\* C24: every quote of discovery has path.length = sources.length + 1 =
\* hopVersions.length + 1, every source after the first takes as input the
\* output of the source before it, and no 2-hop quote has a leg without output
C24_QuoteShapeAndChaining ==
  \A q \in QuotesProduced :
    /\ Len(q.path) = Len(q.sources) + 1
    /\ Len(q.path) = Len(q.hopVersions) + 1
    /\ \A i \in 2..Len(q.sources) : q.sources[i].amountIn = q.sources[i - 1].amountOut
    /\ \A i \in 1..Len(q.sources) : q.sources[i].amountOut > 0
    /\ q.sources[1].amountIn = q.amountIn
    /\ q.sources[Len(q.sources)].amountOut = q.amountOut
    /\ q.path[1] = ask.tokenIn /\ q.path[Len(q.path)] = ask.tokenOut

\* a 2-hop quote, whose first leg yields less than the request's amount, has
\* been returned as the best quote
C24_Witness ==
  /\ Returned /\ quoted.kind = "quote" /\ Len(quoted.best.sources) = 2
  /\ quoted.best.sources[1].amountOut < ask.amountIn
  /\ quoted.best.sources[2].amountIn = quoted.best.sources[1].amountOut
  /\ Len(quoted.best.offers) >= 1

\* C26: no quote comes from a v2 pair with a reserve below the minimum reserve
\* threshold, and none from a v3 pool whose liquidity is at or below the
\* minimum liquidity threshold
C26_ThinPoolsYieldNoQuote ==
  \A q \in QuotesProduced :
    \A i \in 1..Len(q.sources) :
      IF q.hopVersions[i] = "v2"
      THEN /\ q.sources[i].pool.reserveIn >= MinV2ReserveThreshold
           /\ q.sources[i].pool.reserveOut >= MinV2ReserveThreshold
      ELSE q.sources[i].pool.liquidity > MinV3LiquidityThreshold

\* no quote comes from a v2 pair with a reserve below the threshold
DustPairsYieldNoQuote ==
  \A q \in QuotesProduced :
    \A i \in 1..Len(q.sources) :
      q.hopVersions[i] = "v2" =>
        /\ q.sources[i].pool.reserveIn >= MinV2ReserveThreshold
        /\ q.sources[i].pool.reserveOut >= MinV2ReserveThreshold

\* a v2 pair with a reserve exactly at the threshold has given the best quote
PairAtThresholdQuoted ==
  /\ Returned /\ quoted.kind = "quote" /\ quoted.best.hopVersions = <<"v2">>
  /\ quoted.best.sources[1].pool.reserveIn = MinV2ReserveThreshold

\* a v3 pool whose liquidity equals the threshold has given the returned quote
PoolAtThresholdQuoted ==
  /\ Returned /\ quoted.kind = "quote" /\ quoted.best.hopVersions = <<"v3">>
  /\ quoted.best.sources[1].pool.liquidity = MinV3LiquidityThreshold
  /\ quoted.best.liquidityScore = 0 /\ quoted.best.amountOut > 0

\* ------------------------------------------------------------------------
\* Properties of the builder: native currency and hop recipients
\* ------------------------------------------------------------------------
FirstCall == tx.executor.calls[1]

LastCall == tx.executor.calls[Len(tx.executor.calls)]

\* C16: with native input the plan pulls nothing, its first call is deposit() on
\* the wrapped-native token with value = quote.amountIn and a zero injectToken,
\* and the transaction carries that value; with native output the last call is
\* withdraw on the wrapped-native token with value 0, injectToken = the wrapped
\* token and injectOffset 4; either way the wrapped token is in tokensToFlush
C16_NativeWrapAndUnwrap ==
  tx.ok =>
    /\ req.useNativeInput =>
         /\ tx.executor.pulls = <<>>
         /\ FirstCall.target = req.wrappedNativeAddress
         /\ FirstCall.data = SelDeposit
         /\ FirstCall.value = req.quote.amountIn
         /\ FirstCall.injectToken = ZeroAddress
         /\ tx.call.value = req.quote.amountIn
         /\ Len(tx.executor.calls) = Len(req.quote.sources) + 1
         /\ req.wrappedNativeAddress \in Range(tx.executor.tokensToFlush)
    /\ req.useNativeOutput =>
         /\ LastCall.target = req.wrappedNativeAddress
         /\ SubSeq(LastCall.data, 1, 4) = SelWithdraw
         /\ Len(LastCall.data) = 4 + WordSize
         /\ LastCall.value = 0
         /\ LastCall.injectToken = req.wrappedNativeAddress
         /\ LastCall.injectOffset = 4
         /\ Len(tx.executor.calls) = Len(req.quote.sources) + 1
         /\ req.wrappedNativeAddress \in Range(tx.executor.tokensToFlush)

\* a two-hop plan that ends with the unwrap call
C16_Witness ==
  /\ tx.ok /\ req.useNativeOutput /\ Len(req.quote.sources) = 2
  /\ Len(tx.executor.calls) = 3 /\ LastCall.injectOffset = 4
  /\ req.wrappedNativeAddress = WNative

\* a plan that starts with the wrap call and carries the input as value
C16_WrapWitness ==
  /\ tx.ok /\ req.useNativeInput /\ FirstCall.data = SelDeposit
  /\ tx.call.value = req.quote.amountIn /\ tx.call.value > 0

\* the recipient argument of hop i is the executor
PaysExecutor(i) == HopRecipientNum(i) = AddrNum(req.executor)

\* tokens that statements other than the output rule of hop i put in tokensToFlush
FlushedApartFromOutputOf(i) ==
  (IF req.useNativeInput THEN {req.wrappedNativeAddress} ELSE {req.quote.path[1]})
    \cup (IF req.useNativeOutput THEN {req.wrappedNativeAddress} ELSE {})
    \cup {req.quote.path[h] : h \in Hops}
    \cup {req.quote.path[h + 1] : h \in {g \in Hops : g # i /\ PaysExecutor(g)}}

\* C17: the recipient encoded in a hop's call is the executor, except for the
\* last hop of a plan without native output, where it is the end recipient; the
\* hop's output token is put in tokensToFlush exactly when the recipient is the
\* executor
C17_HopRecipientAndFlush ==
  tx.ok =>
    \A i \in Hops :
      /\ HopRecipientNum(i) =
           AddrNum(IF i = Len(req.quote.sources) /\ ~req.useNativeOutput
                   THEN req.recipient ELSE req.executor)
      /\ req.quote.path[i + 1] \notin FlushedApartFromOutputOf(i) =>
           (req.quote.path[i + 1] \in Range(tx.executor.tokensToFlush) <=> PaysExecutor(i))

\* a two-hop plan without unwrapping: the first hop pays the executor and its
\* output is flushed, the last pays the end recipient and its output is not
C17_Witness ==
  /\ tx.ok /\ Len(req.quote.sources) = 2 /\ ~req.useNativeOutput
  /\ req.recipient # req.executor
  /\ PaysExecutor(1) /\ ~PaysExecutor(2)
  /\ req.quote.path[2] \in Range(tx.executor.tokensToFlush)
  /\ req.quote.path[3] \notin Range(tx.executor.tokensToFlush)

\* a plan whose last hop pays the executor because the output is unwrapped
C17_UnwrapWitness ==
  /\ tx.ok /\ req.useNativeOutput /\ PaysExecutor(Len(req.quote.sources))
  /\ req.quote.path[Len(req.quote.path)] \in Range(tx.executor.tokensToFlush)

\* ------------------------------------------------------------------------
\* Properties of the slippage and price-impact computations
\* ------------------------------------------------------------------------
MinOutComputed == calc.fn \in {"getQuote", "applySlippage"}

\* C18 as stated: for a clamped slippage of s basis points the minimum output
\* is floor(amountOut * (10000 - s) / 10000); at 50 bps 0.995 x the output,
\* rounded down
C18_MinOutRoundedDown ==
  MinOutComputed =>
    calc.amountOutMin = (calc.amountOut * (10000 - calc.boundedSlippage)) \div 10000

\* C18 as the code has it: for a clamped slippage of s basis points the minimum
\* output is amountOut - floor(amountOut * s / 10000), which is
\* amountOut * (10000 - s) / 10000 rounded up; at 50 bps 0.995 x the output,
\* rounded up
C18_MinOutRoundedUp ==
  MinOutComputed =>
    /\ calc.boundedSlippage \in 0..5000
    /\ calc.amountOutMin =
         (calc.amountOut * (10000 - calc.boundedSlippage) + 9999) \div 10000

\* 50 bps on an output of 900: the exact bound is 895.5, the result 896
C18_Witness ==
  /\ MinOutComputed /\ calc.boundedSlippage = 50 /\ calc.amountOut = 900
  /\ calc.amountOutMin = 896

\* C20: priceImpactBps is an integer in 0..10,000,000 for every mid-price,
\* input amount and output amount, a zero mid-price, zero amounts and an output
\* far above or below the expectation included
C20_PriceImpactInRange ==
  calc.fn = "computePriceImpactBps" =>
    /\ calc.priceImpactBps \in 0..10000000
    /\ (calc.midPriceQ18 = 0 \/ calc.amountIn = 0 \/ calc.amountOut = 0)
         => calc.priceImpactBps = 0

\* an output more than a thousand times the expectation: the impact is the cap
C20_Witness ==
  /\ calc.fn = "computePriceImpactBps" /\ calc.expectedOut = 1
  /\ calc.amountOut = 20000 /\ calc.priceImpactBps = 10000000

\* an output far below the expectation
C20_BelowWitness ==
  /\ calc.fn = "computePriceImpactBps" /\ calc.expectedOut >= 1000
  /\ calc.amountOut = 1 /\ calc.priceImpactBps \in 9000..10000

\* ------------------------------------------------------------------------
\* Properties of building twice
\* ------------------------------------------------------------------------
BuiltAgain == again # NoTx

\* the payload with the bytes of its deadline argument, if it has one, zeroed
WithoutDeadline(data, fields) ==
  IF \A k \in 1..Len(fields) : fields[k] # "deadline" THEN data
  ELSE [k \in 1..Len(data) |->
          IF k \in (FieldOffset(fields, "deadline") + 1)
                    ..(FieldOffset(fields, "deadline") + WordSize)
          THEN 0 ELSE data[k]]

\* the argument list of executor call k of the plan: a hop's router function,
\* or none for the wrap and unwrap calls
CallFields(k) ==
  LET i == IF req.useNativeInput THEN k - 1 ELSE k
  IN IF i \in Hops THEN HopFields(i) ELSE <<>>

Whitelist == Routers

\* C22: execute dispatches external calls only to targets on an allow-list
C22_OnlyWhitelistedTargets ==
  \A k \in 1..Len(dispatched) : dispatched[k].target \in Whitelist

\* C27: a successful execute does not lower the token balance of a user other
\* than its caller, whatever allowance that user has given the executor
C27_OnlyCallerPays ==
  Succeeded =>
    \A user \in Users \ {run.caller} :
      \A tok \in WorldTokens : bal[tok][user] >= run.pre.bal[tok][user]

\* the pulls of a successful execute with no call to a token contract lower
\* nobody's balance but the caller's
PullsOnlyFromCaller ==
  (Succeeded /\ \A k \in 1..Len(run.calls) : run.calls[k].target \in Routers) =>
    \A user \in Users \ {run.caller} :
      \A tok \in WorldTokens : bal[tok][user] >= run.pre.bal[tok][user]

\* a successful execute whose call made a token move another user's funds
ThirdPartyDrained ==
  /\ Succeeded /\ run.caller = Alice /\ run.pulls = <<>>
  /\ bal[TokA][Bob] = run.pre.bal[TokA][Bob] - 1
  /\ bal[TokA][Alice] = run.pre.bal[TokA][Alice] + 1

\* C30: after a successful execute the executor holds at least what it held
\* before the call, of every token and of native currency (the attached value
\* not counted)
C30_HeldFundsNotSpent ==
  Succeeded =>
    /\ \A tok \in WorldTokens : bal[tok][Executor] >= run.pre.bal[tok][Executor]
    /\ eth[Executor] >= run.pre.eth[Executor]

\* a successful execute without pulls that approved a router and injected the
\* executor's own holding into the call: the holding is gone
HeldFundsSpent ==
  /\ Succeeded /\ run.pulls = <<>> /\ Len(run.approvals) = 1
  /\ Len(run.calls) = 1 /\ run.calls[1].injectToken = TokA
  /\ run.pre.bal[TokA][Executor] = 1 /\ bal[TokA][Executor] = 0

\* ------------------------------------------------------------------------
\* The executor entry point as the builder encodes it and as the contract
\* declares it
\* ------------------------------------------------------------------------
\* AEQUI_EXECUTOR_ABI, function execute: the component types of its inputs
AequiExecutorAbiInputs ==
  [pulls |-> <<"address", "uint256">>,
   approvals |-> <<"address", "address", "uint256">>,
   calls |-> <<"address", "uint256", "bytes", "address", "uint256">>,
   tokensToFlush |-> <<"address">>]

\* AequiExecutor.execute: the member types of TokenPull, Approval and Call, and
\* the address list
ContractExecuteInputs ==
  [pulls |-> <<"address", "uint256">>,
   approvals |-> <<"address", "address", "uint256", "bool">>,
   calls |-> <<"address", "uint256", "bytes", "address", "uint256">>,
   tokensToFlush |-> <<"address">>]

\* encodeFunctionData({abi: AEQUI_EXECUTOR_ABI, functionName: 'execute', args}):
\* the selector stands for the signature it is the hash of; every record is
\* laid out as the components the ABI names, in order
EncodeExecuteCall(plan) ==
  [selector |-> AequiExecutorAbiInputs,
   pulls |-> [k \in 1..Len(plan.pulls) |-> <<plan.pulls[k].token, plan.pulls[k].amount>>],
   approvals |-> [k \in 1..Len(plan.approvals) |->
                    <<plan.approvals[k].token, plan.approvals[k].spender,
                      plan.approvals[k].amount>>],
   calls |-> [k \in 1..Len(plan.calls) |->
                <<plan.calls[k].target, plan.calls[k].value, plan.calls[k].data,
                  plan.calls[k].injectToken, plan.calls[k].injectOffset>>],
   tokensToFlush |-> [k \in 1..Len(plan.tokensToFlush) |-> <<plan.tokensToFlush[k]>>]]

\* the contract runs execute for call data whose selector is that of its own
\* signature and whose records have the members of its structs
ExecuteEntryAccepts(calldata) ==
  /\ calldata.selector = ContractExecuteInputs
  /\ \A list \in {"pulls", "approvals", "calls", "tokensToFlush"} :
       \A k \in 1..Len(calldata[list]) :
         Len(calldata[list][k]) = Len(ContractExecuteInputs[list])

\* C23: the records the builder encodes for execute have the shapes the
\* executor declares (pulls, approvals, calls, token list), so the call data of
\* a built plan is accepted by the executor's execute, field for field
C23_EncodedPlanIsAccepted ==
  tx.ok => ExecuteEntryAccepts(EncodeExecuteCall(tx.executor))

\* the lists on which the builder's ABI and the contract agree
ShapesInAgreement ==
  {list \in {"pulls", "approvals", "calls", "tokensToFlush"} :
     AequiExecutorAbiInputs[list] = ContractExecuteInputs[list]}

\* pulls, calls and the token list have the contract's shapes
OtherShapesAgree ==
  tx.ok => ShapesInAgreement = {"pulls", "calls", "tokensToFlush"}

\* ------------------------------------------------------------------------
\* Properties of the pair-address caches
\* ------------------------------------------------------------------------
\* the addresses stored less than the TTL ago under (A, B) or (B, A)
UnexpiredFor(kind, tokenA, tokenB) ==
  {cache[key].address :
     key \in {k \in {CacheKey(kind, tokenA, tokenB), CacheKey(kind, tokenB, tokenA)} :
                cache[k] # NoEntry /\ clock - cache[k].timestamp < PoolCacheTtl}}

\* C25: a lookup for (A, B) returns a stored address whenever an entry stored
\* less than the TTL ago exists under (A, B) or under (B, A), and nothing when
\* no such entry exists
C25_LookupFindsUnexpiredEntry ==
  lookup # NoLookup =>
    IF UnexpiredFor(lookup.kind, lookup.tokenA, lookup.tokenB) = {}
    THEN lookup.result = "null"
    ELSE lookup.result \in UnexpiredFor(lookup.kind, lookup.tokenA, lookup.tokenB)

\* a lookup never returns an expired or an unknown address
LookupReturnsOnlyUnexpired ==
  (lookup # NoLookup /\ lookup.result # "null") =>
    lookup.result \in UnexpiredFor(lookup.kind, lookup.tokenA, lookup.tokenB)

\* an unexpired entry under (A, B) itself is always found, however (A, B) is
\* spelled
DirectEntryFound ==
  LET direct == cache[CacheKey(lookup.kind, lookup.tokenA, lookup.tokenB)] IN
  (lookup # NoLookup /\ direct # NoEntry /\ clock - direct.timestamp < PoolCacheTtl)
    => lookup.result = direct.address

\* an expired entry under (A, B) hides the unexpired entry under (B, A)
ExpiredEntryHidesReverse ==
  /\ lookup # NoLookup /\ lookup.result = "null"
  /\ UnexpiredFor(lookup.kind, lookup.tokenA, lookup.tokenB) # {}

\* the entry stored under (B, A) is found by a lookup for (A, B)
ReverseEntryFound ==
  /\ lookup # NoLookup /\ lookup.result # "null"
  /\ cache[CacheKey(lookup.kind, lookup.tokenA, lookup.tokenB)] = NoEntry

\* ------------------------------------------------------------------------
\* Properties of a settled plan
\* ------------------------------------------------------------------------
Settled == settled # NoSettlement /\ settled.ok

\* what the swap pays out: native currency when the output is unwrapped
OutputAsset ==
  IF req.useNativeOutput THEN Native ELSE req.quote.path[Len(req.quote.path)]

Gain(who, asset) == settled.closing[<<who, asset>>] - settled.opening[<<who, asset>>]

OutputCredited ==
  /\ Gain(req.recipient, OutputAsset) >= 1
  /\ Gain(req.recipient, OutputAsset) >= tx.amountOutMinimum

\* C29: when a builder-made plan is executed successfully by a caller, the
\* swap's final output is credited to the recipient given to build, with native
\* input or output as well as without, also when the recipient is not the caller
C29_OutputCreditedToRecipient == Settled => OutputCredited

\* the output reaches the recipient unless it is unwrapped for somebody else
OutputCreditedUnlessUnwrappedForAnother ==
  (Settled /\ (~req.useNativeOutput \/ settled.caller = req.recipient)) => OutputCredited

\* an unwrapped output goes to the caller, and nothing to the recipient
UnwrappedOutputGoesToCaller ==
  /\ Settled /\ req.useNativeOutput /\ settled.caller # req.recipient
  /\ Gain(req.recipient, Native) = 0
  /\ Gain(settled.caller, Native) >= 1

\* a token output is paid to a recipient who is not the caller
TokenOutputReachesAnother ==
  /\ Settled /\ ~req.useNativeOutput /\ req.useNativeInput
  /\ settled.caller # req.recipient /\ Len(req.quote.sources) = 2
  /\ OutputCredited

\* an unwrapped output reaches a recipient who is the caller
UnwrappedOutputReachesCaller ==
  /\ Settled /\ req.useNativeOutput /\ settled.caller = req.recipient
  /\ Len(req.quote.sources) = 2 /\ OutputCredited

====
